---- MODULE Spec2Model ----
(***************************************************************************)
(* A model of the read-only FAT32 driver of fat32/src: the sector cache    *)
(* (vfat/cache.rs), the FAT engine and cluster I/O (vfat/vfat.rs), the     *)
(* file facade (vfat/file.rs) and the directory decoder (vfat/dir.rs).     *)
(*                                                                         *)
(* Sizes are scaled: a physical sector holds PhysSectorSize bytes, the     *)
(* volume holds the clusters 2..MaxCluster.  Bytes are numbers 0..255.     *)
(***************************************************************************)
EXTENDS Integers, Sequences, FiniteSets, TLC

VARIABLES
    vfat,       \* the VFat facade's geometry fields and its cache partition
    fat,        \* the on-disk FAT: cluster number -> 32-bit entry (the device is never written)
    cache,      \* CachedDevice.cache: virtual sector -> CacheEntry
    rc,         \* the activation of read_chain: its locals, buf, and its result
                \* (or the last call of read_cluster: its arguments and its result)
    file,       \* a File: first_cluster, size, file_ptr
    fres,       \* the last call on the file: its argument and what it returned
    entries,    \* VFatDirEntryIter.entries: the slots of the directory read by entries()
    iter,       \* VFatDirEntryIter.iter
    hist,       \* what the calls of next() on the iterator returned, in order
    fnd,        \* the last call of Dir::find: its argument and what it returned
    tree,       \* the volume's directories: first cluster -> the slots entries() reads
    opn,        \* the last call of FileSystem::open: its path and what it returned
    its,        \* the VFatDirEntryIter values alive: each its entries, iter, and what it yielded
    img,        \* the device handed to VFat::from: its sector size and its sectors
                \* (under the cache: its sector size, its sector count, the writes it served)
    mnt,        \* what VFat::from returned, and the sectors it read
    devlog,     \* the physical sectors read from the device under the cache, in order
    cres        \* the last call on the CachedDevice: its argument and what it returned

vars == <<vfat, fat, cache, rc, file, fres, entries, iter, hist, fnd,
          tree, opn, its, img, mnt, devlog, cres>>

dirVars == <<entries, iter, hist, fnd>>

fsVars == <<tree, opn, its, img, mnt, devlog, cres>>

\* ------------------------------------------------------------------ bounds

\* bytes in one physical sector of the block device (device.sector_size())
PhysSectorSize == 4
\* the highest cluster number of the volume; clusters are 2..MaxCluster
MaxCluster == 4
\* the width in bits the model gives to u32 (File.size, File.file_ptr); u64,
\* i64 and usize are given two bits more
U32Bits == 2
\* the number of 32-byte slots of the directories iterated
DirSlots == 3

Min(a, b) == IF a < b THEN a ELSE b

Clusters == 2..MaxCluster

\* ------------------------------------------------------------- FAT entries

FatEntrySize == 4

\* FAT entry values met on the modelled volumes: Unused, Reserved, Bad, an
\* Eoc marker with a bit above the low 28 set, and links to clusters (one
\* link to cluster 3 with a bit above the low 28 set).
FatValues == {0, 1, 268435447, 536870911, 268435456 + 3} \cup Clusters

\* FatEntry::status: classify the low 28 bits of the entry.
Status(raw) ==
    LET v == raw % 268435456
    IN  IF v = 0 THEN [kind |-> "Unused", next |-> 0]
        ELSE IF v = 1 THEN [kind |-> "Reserved", next |-> 0]
        ELSE IF v <= 268435439 THEN [kind |-> "Data", next |-> v]
        ELSE IF v <= 268435446 THEN [kind |-> "Reserved", next |-> 0]
        ELSE IF v = 268435447 THEN [kind |-> "Bad", next |-> 0]
        ELSE [kind |-> "Eoc", next |-> v]

\* ------------------------------------------------------------ the device

\* little-endian bytes of a 32-bit word
Le32(w) == << w % 256, (w \div 256) % 256, (w \div 65536) % 256, (w \div 16777216) % 256 >>

\* the byte stored at offset off of data cluster c
DataByte(c, off) == (c * 64 + off) % 256

\* The contents of logical sector n of the volume (n counted like the
\* virtual sectors the facade asks for): the FAT region holds the entries of
\* table f, each as 4 little-endian bytes; the data region holds the
\* clusters; every other byte is 0.
LogicalSector(v, f, n) ==
    LET bps == v.bytes_per_sector
        eps == bps \div FatEntrySize
    IN  [k \in 1..bps |->
            IF n >= v.fat_start_sector /\ n < v.data_start_sector
            THEN LET c == (n - v.fat_start_sector) * eps + ((k - 1) \div FatEntrySize)
                 IN  IF (k - 1) \div FatEntrySize < eps /\ c \in DOMAIN f
                     THEN Le32(f[c])[((k - 1) % FatEntrySize) + 1]
                     ELSE 0
            ELSE IF n >= v.data_start_sector
            THEN LET s == n - v.data_start_sector
                 IN  DataByte(2 + (s \div v.sectors_per_cluster),
                              (s % v.sectors_per_cluster) * bps + (k - 1))
            ELSE 0]

\* BlockDevice::read_all_sector of the underlying device: physical sector p.
\* At and after the partition start, a logical sector is stored in
\* sector_size / PhysSectorSize consecutive physical sectors.
DeviceSector(v, f, p) ==
    LET factor == v.partition.sector_size \div PhysSectorSize
        start  == v.partition.start
    IN  IF p < start THEN [k \in 1..PhysSectorSize |-> 0]
        ELSE LET lsec == start + ((p - start) \div factor)
                 part == (p - start) % factor
             IN  SubSeq(LogicalSector(v, f, lsec),
                        part * PhysSectorSize + 1, (part + 1) * PhysSectorSize)

\* ------------------------------------------------------------ sector cache

virtual_to_physical_m(v, virt) ==
    IF PhysSectorSize = v.partition.sector_size THEN << virt, 1 >>
    ELSE << v.partition.start + virt * (v.partition.sector_size \div PhysSectorSize),
            v.partition.sector_size \div PhysSectorSize >>

\* CachedDevice::virtual_to_physical(virt): the first physical sector and the
\* number of physical sectors
virtual_to_physical(v, virt) ==
    IF PhysSectorSize = v.partition.sector_size THEN << virt, 1 >>
    ELSE IF virt < v.partition.start THEN << virt, 1 >>
    ELSE LET factor == v.partition.sector_size \div PhysSectorSize
             logical_offset == virt - v.partition.start
             physical_offset == logical_offset * factor
         IN  << v.partition.start + physical_offset, factor >>

RECURSIVE ReadAllSectors(_, _, _, _)
\* the loop of read_entry_from_dev: append `count` physical sectors from phy on
ReadAllSectors(v, f, phy, count) ==
    IF count = 0 THEN << >>
    ELSE DeviceSector(v, f, phy) \o ReadAllSectors(v, f, phy + 1, count - 1)

read_entry_from_dev(v, f, sector) ==
    LET pf == virtual_to_physical(v, sector)
    IN  [data |-> ReadAllSectors(v, f, pf[1], pf[2]), dirty |-> FALSE]

\* CachedDevice::get: the cache after the call (the sector is cached[sector].data)
get(v, f, c, sector) ==
    IF sector \in DOMAIN c THEN c
    ELSE [s \in DOMAIN c \cup {sector} |->
            IF s = sector THEN read_entry_from_dev(v, f, sector) ELSE c[s]]

\* BlockDevice::read_sector of the cache into the slice buf[at..] (at counts
\* the bytes of buf before the slice): copies min(sec.len(), slice.len()).
read_sector_copy(c2, n, buf, at) ==
    LET sec == c2[n].data
        len == Min(Len(sec), Len(buf) - at)
    IN  [cache |-> c2,
         buf   |-> [i \in 1..Len(buf) |->
                        IF i > at /\ i <= at + len THEN sec[i - at] ELSE buf[i]],
         n     |-> len]

read_sector(v, f, c, n, buf, at) == read_sector_copy(get(v, f, c, n), n, buf, at)

\* ------------------------------------------------------------ cluster I/O

\* read += self.device.read_sector(i, &mut buf[read..])
read_cluster_add(st, r) == [cache |-> r.cache, buf |-> r.buf, read |-> st.read + r.n]

RECURSIVE read_cluster_loop(_, _, _, _, _, _)
\* the for loop of read_cluster over the sectors i..last-1; st.read counts
\* the bytes read so far into the slice that starts at byte `at` of st.buf
read_cluster_loop(v, f, st, i, last, at) ==
    IF i >= last THEN st
    ELSE read_cluster_loop(v, f,
             read_cluster_add(st, read_sector(v, f, st.cache, i, st.buf, at + st.read)),
             i + 1, last, at)

read_cluster_m(v, f, c, cluster, offset, buf, at) ==
    read_cluster_loop(v, f, [cache |-> c, buf |-> buf, read |-> 0],
        (cluster - 2) * v.sectors_per_cluster + v.data_start_sector + offset,
        (cluster - 2) * v.sectors_per_cluster + v.data_start_sector + offset
            + ((Len(buf) - at) \div v.bytes_per_sector),
        at)

\* VFat::read_cluster(cluster, offset, &mut buf[at..])
read_cluster(v, f, c, cluster, offset, buf, at) ==
    LET cluster_start == (cluster - 2) * v.sectors_per_cluster + v.data_start_sector
        start_sector  == cluster_start + offset
        end_sector    == cluster_start + v.sectors_per_cluster
        can_read      == (Len(buf) - at) \div v.bytes_per_sector
        can_read_end  == Min(end_sector, start_sector + can_read)
    IN  read_cluster_loop(v, f, [cache |-> c, buf |-> buf, read |-> 0],
                          start_sector, can_read_end, at)

\* the u32 stored little-endian at entry idx of a sector (SliceExt::cast)
CastFatEntry(sec, idx) ==
    sec[idx * 4 + 1] + 256 * sec[idx * 4 + 2] + 65536 * sec[idx * 4 + 3]
        + 16777216 * sec[idx * 4 + 4]

\* VFat::fat_entry: the cache after the lookup and the entry read
fat_entry_in(c2, sector, index_in_sector) ==
    [cache |-> c2, entry |-> CastFatEntry(c2[sector].data, index_in_sector)]

fat_entry(v, f, c, cluster) ==
    LET entries_per_sector == v.bytes_per_sector \div FatEntrySize
        nth_sec_in_fat     == cluster \div entries_per_sector
        index_in_sector    == cluster % entries_per_sector
    IN  fat_entry_in(get(v, f, c, nth_sec_in_fat + v.fat_start_sector),
                     nth_sec_in_fat + v.fat_start_sector, index_in_sector)

cluster_bytes_m(v) == v.bytes_per_sector

\* the number of bytes read_chain grows buf by in each round of its loop
cluster_bytes(v) == v.bytes_per_sector * v.sectors_per_cluster

chain_match_m(st) ==
    IF st.kind = "Data" THEN [pc |-> "loop", cur |-> st.next]
    ELSE IF st.kind \in {"Eoc", "Bad"} THEN [pc |-> "ok", cur |-> 0]
    ELSE [pc |-> "err", cur |-> 0]

\* the match of read_chain on the status of the current cluster's FAT entry
chain_match(st) ==
    IF st.kind = "Data" THEN [pc |-> "loop", cur |-> st.next]
    ELSE IF st.kind = "Eoc" THEN [pc |-> "ok", cur |-> 0]
    ELSE [pc |-> "err", cur |-> 0]

\* the slice read_chain hands to read_cluster starts at byte `read` of buf
chain_slice_start(buflen, read) == read

\* One round of the loop of VFat::read_chain on the activation r (with cache
\* c): resize, read_cluster into the slice, fat_entry, match.
\* the round after fat_entry returned fe: match self.fat_entry(cur_cluster)?.status()
read_chain_matched(r, rd, fe, m) ==
    [cache |-> fe.cache,
     rc    |-> [r EXCEPT !.pc = m.pc, !.cur = m.cur, !.buf = rd.buf,
                         !.read = r.read + rd.read,
                         !.path = Append(r.path, r.cur)]]

read_chain_status(r, rd, fe) == read_chain_matched(r, rd, fe, chain_match(Status(fe.entry)))

\* the round after read_cluster returned rd: read += ...; self.fat_entry(cur_cluster)
read_chain_read(v, f, r, rd) == read_chain_status(r, rd, fat_entry(v, f, rd.cache, r.cur))

read_chain_round(v, f, c, r) ==
    read_chain_read(v, f, r,
        read_cluster(v, f, c, r.cur, 0, r.buf \o [i \in 1..cluster_bytes(v) |-> 0],
                     chain_slice_start(Len(r.buf), r.read)))

\* ------------------------------------------------------------- geometries

\* the facade of a mounted volume with the given logical sector size and
\* cluster size: the partition starts at sector 1, one reserved sector,
\* two FATs of MaxCluster + 1 sectors each
Geometry(bps, spc) ==
    [bytes_per_sector    |-> bps,
     sectors_per_cluster |-> spc,
     sectors_per_fat     |-> MaxCluster + 1,
     fat_start_sector    |-> 1 + 1,
     data_start_sector   |-> 1 + 1 + 2 * (MaxCluster + 1),
     root_dir_cluster    |-> 2,
     partition           |-> [start |-> 1, sector_size |-> bps]]

Geometries ==
    { Geometry(PhysSectorSize, 1), Geometry(PhysSectorSize, 2),
      Geometry(2 * PhysSectorSize, 1) }

\* FAT[0] and FAT[1] hold the media and the end-of-chain markers
FatTables ==
    { [c \in 0..MaxCluster |->
          IF c = 0 THEN 268435448 ELSE IF c = 1 THEN 268435455 ELSE g[c]] :
      g \in [Clusters -> FatValues] }

EmptyCache == [s \in {} |-> [data |-> << >>, dirty |-> FALSE]]

NoFile == [first_cluster |-> 0, size |-> 0, file_ptr |-> 0]

NoCall == [op |-> "none", arg |-> 0, prev |-> 0, res |-> "Ok", val |-> 0, data |-> << >>]

NoEntry == [name |-> << >>, first_cluster |-> 0, dir |-> FALSE, slot |-> 0]

NoFind == [op |-> "none", arg |-> << >>, res |-> "Ok", entry |-> NoEntry]

\* no directory is open
NoDir ==
    /\ entries = << >>
    /\ iter = 0
    /\ hist = << >>
    /\ fnd = NoFind

NoOpen == [op |-> "none", path |-> << >>, res |-> "Ok", entry |-> NoEntry]

NoMount == [stage |-> "none", res |-> "none", index |-> 0, vfat |-> << >>, read |-> << >>, cache |-> FALSE]

NoImage == [sector_size |-> 0, sectors |-> << >>]

NoCacheCall == [op |-> "none", sector |-> 0, res |-> "Ok", data |-> << >>, hit |-> FALSE,
                reads |-> << >>, buf |-> << >>]

\* nothing is mounted or opened
NoFs ==
    /\ tree = << >>
    /\ opn = NoOpen
    /\ its = << >>
    /\ img = NoImage
    /\ mnt = NoMount
    /\ devlog = << >>
    /\ cres = NoCacheCall

IdleChain == [pc |-> "idle", start |-> 0, cur |-> 0, read |-> 0,
              buf |-> << >>, buf0 |-> << >>, path |-> << >>, prev |-> "none"]

\* ------------------------------------------------- read_chain, step by step

\* the buffers read_chain is called with: empty, and holding five bytes
InitialBufs == { << >>, << 7, 8, 9, 10, 11 >> }

InitChain ==
    /\ vfat \in Geometries
    /\ fat \in FatTables
    /\ cache = EmptyCache
    /\ rc = IdleChain
    /\ file = NoFile
    /\ fres = NoCall
    /\ NoDir
    /\ NoFs

\* read_chain(start, buf) is called: let mut cur_cluster = start; let mut read = 0
ReadChainCall(start, b) ==
    /\ rc.pc = "idle"
    /\ rc' = [pc |-> "loop", start |-> start, cur |-> start, read |-> 0,
              buf |-> b, buf0 |-> b, path |-> << >>, prev |-> "none"]
    /\ UNCHANGED <<vfat, fat, cache, file, fres, dirVars, fsVars>>

ChainRoundDone(r) ==
    /\ rc' = r.rc
    /\ cache' = r.cache

\* one round of the loop; a chain longer than the volume has clusters is a
\* cycle and is followed no further than MaxCluster rounds
ReadChainRound ==
    /\ rc.pc = "loop"
    /\ Len(rc.path) < MaxCluster
    /\ \E r \in {read_chain_round(vfat, fat, cache, rc)} : ChainRoundDone(r)
    /\ UNCHANGED <<vfat, fat, file, fres, dirVars, fsVars>>

NextChain ==
    \/ \E start \in Clusters, b \in InitialBufs : ReadChainCall(start, b)
    \/ ReadChainRound

SpecChain == InitChain /\ [][NextChain]_vars

\* a round of the loop after as many rounds as the volume has clusters: the
\* chain is a cycle and the loop goes on along it; buf and the path keep
\* growing and are recorded no further, read is counted modulo the bytes of
\* 2 * MaxCluster clusters
ReadChainSpin ==
    /\ rc.pc = "loop"
    /\ Len(rc.path) >= MaxCluster
    /\ rc' = [rc EXCEPT !.pc = chain_match(Status(fat[rc.cur])).pc,
                        !.cur = chain_match(Status(fat[rc.cur])).cur,
                        !.read = (@ + cluster_bytes(vfat)) % (2 * MaxCluster * cluster_bytes(vfat))]
    /\ UNCHANGED <<vfat, fat, cache, file, fres, dirVars, fsVars>>

\* FAT tables whose entries of clusters 2 and 3 are links to cluster 2 or 3,
\* Eoc or Bad; the entries of the other clusters are links to cluster 2
LiveFatTables ==
    { [c \in 0..MaxCluster |->
          IF c = 0 THEN 268435448 ELSE IF c = 1 THEN 268435455
          ELSE IF c = 2 THEN a ELSE IF c = 3 THEN b ELSE 2] :
      a, b \in {2, 3, 268435455, 268435447} }

InitChainLive ==
    /\ vfat = Geometry(PhysSectorSize, 1)
    /\ fat \in LiveFatTables
    /\ cache = EmptyCache
    /\ rc = IdleChain
    /\ file = NoFile
    /\ fres = NoCall
    /\ NoDir
    /\ NoFs

ReadChainStep == ReadChainRound \/ ReadChainSpin

NextChainLive ==
    \/ \E start \in Clusters : ReadChainCall(start, << >>)
    \/ ReadChainStep

\* read_chain runs to its return once called: the loop has no await and the
\* driver is single-threaded, so a round that can run does run
SpecChainLive == InitChainLive /\ [][NextChainLive]_vars /\ WF_vars(ReadChainStep)

\* ------------------------------------------------------------------ files

RECURSIVE read_chain_loop(_, _, _, _)
\* the loop of read_chain run until it returns; a chain of more rounds than
\* the volume has clusters is a cycle, which the loop never leaves (pc stays
\* "loop")
read_chain_loop(v, f, st, fuel) ==
    IF st.rc.pc # "loop" \/ fuel = 0 THEN st
    ELSE read_chain_loop(v, f, read_chain_round(v, f, st.cache, st.rc), fuel - 1)

\* VFat::read_chain(start, buf), the whole call
read_chain(v, f, c, start, buf) ==
    read_chain_loop(v, f,
        [cache |-> c,
         rc    |-> [pc |-> "loop", start |-> start, cur |-> start, read |-> 0,
                    buf |-> buf, buf0 |-> buf, path |-> << >>, prev |-> "none"]],
        MaxCluster)

U32 == 2 ^ U32Bits
U64 == 2 ^ (U32Bits + 2)
\* the values of i64
I64 == (0 - (U64 \div 2))..((U64 \div 2) - 1)

\* `x as u32` and `x as u64` of an integer: the value modulo the width
AsU32(x) == x % U32
AsU64(x) == x % U64

\* -offset in i64: the negation of the least i64 overflows, which a build
\* with overflow checks turns into a panic and a build without wraps
NegI64(x) == IF x = 0 - (U64 \div 2) THEN x ELSE 0 - x

\* the cast of the target in the End arm of seek
end_target_cast(x) == AsU32(x)

\* File::read(buf) with buf.len() = buflen: the result, the bytes copied to
\* the front of buf, the file and the cache after the call
\* min(file_left, buf.len() as u32)
read_can_read(file_left, buflen) == Min(file_left, AsU32(buflen))

\* File::read after read_chain returned ch (a chain that never ends never
\* returns; `?` hands an error on; a slice past the end of v panics)
file_read_copy(fl, buflen, ch) ==
    LET file_left == fl.size - fl.file_ptr
        can_read  == read_can_read(file_left, buflen)
        v         == ch.rc.buf
    IN  IF ch.rc.pc = "loop"
        THEN [res |-> "hang", val |-> 0, data |-> << >>, file |-> fl, cache |-> ch.cache]
        ELSE IF ch.rc.pc = "err"
        THEN [res |-> "Other", val |-> 0, data |-> << >>, file |-> fl, cache |-> ch.cache]
        ELSE IF fl.file_ptr + can_read > Len(v)
        THEN [res |-> "panic", val |-> 0, data |-> << >>, file |-> fl, cache |-> ch.cache]
        ELSE [res |-> "Ok", val |-> can_read,
              data |-> SubSeq(v, fl.file_ptr + 1, fl.file_ptr + can_read),
              file |-> [fl EXCEPT !.file_ptr = fl.file_ptr + can_read],
              cache |-> ch.cache]

file_read(v, f, c, fl, buflen) ==
    IF fl.size = 0
    THEN [res |-> "Ok", val |-> 0, data |-> << >>, file |-> fl, cache |-> c]
    ELSE file_read_copy(fl, buflen, read_chain(v, f, c, fl.first_cluster, << >>))

SeekErr(fl) == [res |-> "InvalidInput", val |-> 0, file |-> fl]
SeekPanic(fl) == [res |-> "panic", val |-> 0, file |-> fl]
SeekTo(fl, ptr) == [res |-> "Ok", val |-> ptr, file |-> [fl EXCEPT !.file_ptr = ptr]]

seek_check_m(fl, new_ptr) == SeekTo(fl, new_ptr)

\* the comparison against size that ends each arm of seek
seek_check(fl, new_ptr) ==
    IF new_ptr > AsU32(fl.size) THEN SeekErr(fl) ELSE SeekTo(fl, new_ptr)

\* File::seek(SeekFrom::Start(offset)), offset a u64
seek_start(fl, offset) ==
    IF offset > fl.size THEN SeekErr(fl) ELSE SeekTo(fl, AsU32(offset))

\* File::seek(SeekFrom::End(offset)), offset an i64; checks says whether the
\* build checks arithmetic overflow
seek_end(fl, offset, checks) ==
    IF offset < 0
    THEN IF offset = 0 - (U64 \div 2) /\ checks THEN SeekPanic(fl)
         ELSE LET sub == AsU64(NegI64(offset))
              IN  IF fl.size - sub < 0 THEN SeekErr(fl)
                  ELSE seek_check(fl, end_target_cast(fl.size - sub))
    ELSE LET add == AsU64(offset)
         IN  IF fl.size + add >= U64 THEN SeekErr(fl)
             ELSE seek_check(fl, end_target_cast(fl.size + add))

\* File::seek(SeekFrom::Current(offset)), offset an i64
seek_current(fl, offset, checks) ==
    IF offset < 0
    THEN IF offset = 0 - (U64 \div 2) /\ checks THEN SeekPanic(fl)
         ELSE LET sub == AsU32(NegI64(offset))
              IN  IF fl.file_ptr - sub < 0 THEN SeekErr(fl)
                  ELSE seek_check(fl, fl.file_ptr - sub)
    ELSE LET add == AsU32(offset)
         IN  IF fl.file_ptr + add >= U32 THEN SeekErr(fl)
             ELSE seek_check(fl, fl.file_ptr + add)

\* the chains files are stored in: 2 -> 3 -> .. -> MaxCluster -> Eoc, the
\* one cluster 2, 2 -> 3 -> Bad, and the cycle 2 -> 3 -> 2
FileFatTables ==
    { [c \in 0..MaxCluster |->
          IF c < 2 THEN 268435455
          ELSE IF c = 2 THEN a
          ELSE IF c = 3 THEN b
          ELSE IF c < MaxCluster THEN c + 1 ELSE 536870911] :
      a \in {3}, b \in {4, 268435447, 2} } \cup
    { [c \in 0..MaxCluster |-> 536870911] }

\* the lengths of the buffers read is called with: short ones, and ones of
\* 2^32 bytes and more
BufLens == {0, 1, 2, U32 - 1, U32, U32 + 1, U64 - 1}

InitFile ==
    /\ vfat = Geometry(PhysSectorSize, 1)
    /\ fat \in FileFatTables
    /\ cache = EmptyCache
    /\ rc = IdleChain
    /\ \E sz \in 0..(U32 - 1) : file = [first_cluster |-> 2, size |-> sz, file_ptr |-> 0]
    /\ fres = NoCall
    /\ NoDir
    /\ NoFs

\* no call follows one that panicked or never returned
FileLive == fres.res \notin {"panic", "hang"}

ReadDone(buflen, r) ==
    /\ file' = r.file
    /\ cache' = r.cache
    /\ fres' = [op |-> "read", arg |-> buflen, prev |-> file.file_ptr,
                res |-> r.res, val |-> r.val, data |-> r.data]
    /\ UNCHANGED <<vfat, fat, rc, dirVars, fsVars>>

FileRead(buflen) ==
    /\ FileLive
    /\ ReadDone(buflen, file_read(vfat, fat, cache, file, buflen))

SeekDone(kind, n, r) ==
    /\ file' = r.file
    /\ fres' = [op |-> kind, arg |-> n, prev |-> file.file_ptr,
                res |-> r.res, val |-> r.val, data |-> << >>]
    /\ UNCHANGED <<vfat, fat, cache, rc, dirVars, fsVars>>

\* whether the build checks arithmetic overflow shows only on the least i64
OverflowChecks(n) == IF n = 0 - (U64 \div 2) THEN BOOLEAN ELSE {FALSE}

FileSeekStart(n) ==
    /\ FileLive
    /\ SeekDone("Start", n, seek_start(file, n))

FileSeekEnd(n) ==
    /\ FileLive
    /\ \E checks \in OverflowChecks(n) : SeekDone("End", n, seek_end(file, n, checks))

FileSeekCurrent(n) ==
    /\ FileLive
    /\ \E checks \in OverflowChecks(n) : SeekDone("Current", n, seek_current(file, n, checks))

NextFile ==
    \/ \E buflen \in BufLens : FileRead(buflen)
    \/ \E n \in 0..(U64 - 1) : FileSeekStart(n)
    \/ \E n \in I64 : FileSeekEnd(n)
    \/ \E n \in I64 : FileSeekCurrent(n)

SpecFile == InitFile /\ [][NextFile]_vars

\* ------------------------------------------------------------ directories

\* [0u16; 13 * 31]: the code units of one LFN slot and the slots of a name
LfnChars == 13
LfnSlots == 31

\* Attributes::LFN and Attributes::DIRECTORY
AttrLfn == 15
AttrDirectory == 16

\* Attributes::lfn: self.0 == LFN
lfn(attr) == attr = AttrLfn

\* Attributes::directory: self.0 & DIRECTORY == DIRECTORY
directory(attr) == (attr \div AttrDirectory) % 2 = 1

\* A slot is the 32 bytes of a VFatDirEntry in its three views: seq is byte 0
\* (the first byte of name in the regular view), attr byte 11, chars the 13
\* code units chars1, chars2, chars3 of the LFN view, name and ext and the
\* cluster halves the fields of the regular view.
Slot(seq, attr, chars, name, ext, hi, lo) ==
    [seq |-> seq, attr |-> attr, chars |-> chars, name |-> name, ext |-> ext,
     cluster_num_hi |-> hi, cluster_num_lo |-> lo]

Pad(units, n, with) == units \o [i \in 1..(n - Len(units)) |-> with]

LfnSlot(seq, units) ==
    Slot(seq, AttrLfn, Pad(units, LfnChars, 65535), Pad(<< >>, 8, 0), Pad(<< >>, 3, 0), 0, 0)

ShortSlot(name, ext, attr, lo) ==
    Slot(name[1], attr, Pad(<< >>, LfnChars, 0), name, ext, 0, lo)

\* "hello-world.t", "xt", "ab", "Ab" in UTF-16, and "HELLO~1 ", "TXT",
\* "AB      ", "   " in ASCII
HelloWorldT == << 104, 101, 108, 108, 111, 45, 119, 111, 114, 108, 100, 46, 116 >>
Hello1 == << 72, 69, 76, 76, 79, 126, 49, 32 >>
Txt == << 84, 88, 84 >>
Ab8 == << 65, 66, 32, 32, 32, 32, 32, 32 >>
Blank3 == << 32, 32, 32 >>

\* the slots directories are made of
EndSlot == Slot(0, 0, Pad(<< >>, LfnChars, 0), Pad(<< >>, 8, 0), Pad(<< >>, 3, 0), 0, 0)
LiveLfnSlots ==
    { LfnSlot(1, HelloWorldT),                  \* 1st of 2: "hello-world.t"
      LfnSlot(66, << 120, 116, 0 >>),           \* 2nd and last: "xt"
      LfnSlot(1, << 97, 98, 0 >>),              \* "ab"
      LfnSlot(65, << 65, 98, 0 >>),             \* "Ab", index 1 again
      LfnSlot(1, << 55296, 0 >>),               \* an unpaired surrogate
      LfnSlot(2, << 55357, 56832, 0 >>) }       \* a surrogate pair, index 2
LiveShortSlots ==
    { ShortSlot(Hello1, Txt, 32, 3),            \* file HELLO~1.TXT
      ShortSlot(Ab8, Blank3, AttrDirectory, 4) }    \* directory AB
DeletedSlots ==
    { ShortSlot(<< 229 >> \o Tail(Hello1), Txt, 32, 3),
      LfnSlot(229, << 97, 98, 0 >>) }
SlotUniverse == {EndSlot} \cup LiveLfnSlots \cup LiveShortSlots \cup DeletedSlots

\* String::from_utf16 on code units: the chars, or no String when a
\* surrogate is unpaired
RECURSIVE from_utf16(_)
from_utf16(u) ==
    IF u = << >> THEN [ok |-> TRUE, chars |-> << >>]
    ELSE IF Head(u) < 55296 \/ Head(u) > 57343
    THEN LET r == from_utf16(Tail(u))
         IN  [ok |-> r.ok, chars |-> << Head(u) >> \o r.chars]
    ELSE IF Head(u) <= 56319 /\ Len(u) >= 2 /\ u[2] >= 56320 /\ u[2] <= 57343
    THEN LET r == from_utf16(Tail(Tail(u)))
         IN  [ok |-> r.ok,
              chars |-> << 65536 + (Head(u) - 55296) * 1024 + (u[2] - 56320) >> \o r.chars]
    ELSE [ok |-> FALSE, chars |-> << >>]

IsCont(b) == b >= 128 /\ b <= 191

\* str::from_utf8 / OsStr::to_str on bytes: the chars, or none when the
\* bytes are not UTF-8
RECURSIVE from_utf8(_)
from_utf8(b) ==
    IF b = << >> THEN [ok |-> TRUE, chars |-> << >>]
    ELSE IF Head(b) < 128
    THEN LET r == from_utf8(Tail(b))
         IN  [ok |-> r.ok, chars |-> << Head(b) >> \o r.chars]
    ELSE IF Head(b) >= 194 /\ Head(b) <= 223 /\ Len(b) >= 2 /\ IsCont(b[2])
    THEN LET r == from_utf8(SubSeq(b, 3, Len(b)))
         IN  [ok |-> r.ok, chars |-> << (Head(b) - 192) * 64 + (b[2] - 128) >> \o r.chars]
    ELSE IF Head(b) >= 224 /\ Head(b) <= 239 /\ Len(b) >= 3 /\ IsCont(b[2]) /\ IsCont(b[3])
            /\ (Head(b) = 224 => b[2] >= 160) /\ (Head(b) = 237 => b[2] <= 159)
    THEN LET r == from_utf8(SubSeq(b, 4, Len(b)))
         IN  [ok |-> r.ok,
              chars |-> << (Head(b) - 224) * 4096 + (b[2] - 128) * 64 + (b[3] - 128) >>
                        \o r.chars]
    ELSE IF Head(b) >= 240 /\ Head(b) <= 244 /\ Len(b) >= 4
            /\ IsCont(b[2]) /\ IsCont(b[3]) /\ IsCont(b[4])
            /\ (Head(b) = 240 => b[2] >= 144) /\ (Head(b) = 244 => b[2] <= 143)
    THEN LET r == from_utf8(SubSeq(b, 5, Len(b)))
         IN  [ok |-> r.ok,
              chars |-> << (Head(b) - 240) * 262144 + (b[2] - 128) * 4096
                           + (b[3] - 128) * 64 + (b[4] - 128) >> \o r.chars]
    ELSE [ok |-> FALSE, chars |-> << >>]

\* char::is_whitespace on the chars below 128
IsSpace(c) == c = 32 \/ (c >= 9 /\ c <= 13)

RECURSIVE trim_right(_)
trim_right(cs) ==
    IF cs # << >> /\ IsSpace(cs[Len(cs)]) THEN trim_right(SubSeq(cs, 1, Len(cs) - 1))
    ELSE cs

\* the 8.3 name of a regular entry: [ok |-> FALSE] when from_utf8(..).unwrap() panics
short_name(e) ==
    LET n == from_utf8(e.name)
        x == from_utf8(e.ext)
    IN  IF ~n.ok \/ ~x.ok THEN [ok |-> FALSE, chars |-> << >>]
        ELSE [ok |-> TRUE,
              chars |-> IF Len(trim_right(x.chars)) > 0
                        THEN trim_right(n.chars) \o << 46 >> \o trim_right(x.chars)
                        ELSE trim_right(n.chars)]

\* the slots stored 12 units apart
lfn_offset_m(seq) == ((seq % 32) - 1) * 12

\* the index in lfn_vec at which the slot with sequence byte seq is stored
lfn_offset(seq) == ((seq % 32) - 1) * LfnChars

\* lfn_vec after the three copy_from_slice of an LFN slot
lfn_store(lfn_vec, e) ==
    LET at == lfn_offset(e.seq)
    IN  [k \in 1..(LfnChars * LfnSlots) |->
            IF k > at /\ k <= at + 5 THEN e.chars[k - at]
            ELSE IF k > at + 5 /\ k <= at + 11 THEN e.chars[k - at]
            ELSE IF k > at + 11 /\ k <= at + 13 THEN e.chars[k - at]
            ELSE lfn_vec[k]]

\* lfn_vec.iter().position(|&c| c == 0x0000 || c == 0xFFFF).or(Some(lfn_vec.len()))
lfn_len(lfn_vec) ==
    LET hits == { k \in 1..Len(lfn_vec) : lfn_vec[k] = 0 \/ lfn_vec[k] = 65535 }
    IN  IF hits = {} THEN Len(lfn_vec)
        ELSE (CHOOSE k \in hits : \A j \in hits : k <= j) - 1

long_name(lfn_vec) == from_utf16(SubSeq(lfn_vec, 1, lfn_len(lfn_vec)))

\* the short name whatever was accumulated
use_long_name_m(has_lfn) == FALSE

\* whether the entry takes the long name: `if !has_lfn { short } else { long }`
use_long_name(has_lfn) == has_lfn

\* what next() returns: Some(entry), None, or a panic; iter is self.iter
\* after the call. Entry.slot is the slot the entry was decoded from.
IterSome(i, e, name) ==
    [kind |-> "Some", iter |-> i,
     entry |-> [name |-> name,
                first_cluster |-> e.cluster_num_hi * 65536 + e.cluster_num_lo,
                dir |-> directory(e.attr),
                slot |-> i]]
IterNone(i) == [kind |-> "None", iter |-> i, entry |-> NoEntry]
IterPanic(i) == [kind |-> "panic", iter |-> i, entry |-> NoEntry]

\* `String::from_utf16(..).ok()?` on the long name
next_long(i, e, n) == IF n.ok THEN IterSome(i, e, n.chars) ELSE IterNone(i)

next_short(i, e, n) == IF n.ok THEN IterSome(i, e, n.chars) ELSE IterPanic(i)

\* the arm of next() for a regular entry, self.iter being i after the increment
next_regular(i, e, lfn_vec, has_lfn) ==
    IF use_long_name(has_lfn) THEN next_long(i, e, long_name(lfn_vec))
    ELSE next_short(i, e, short_name(e))

RECURSIVE next_loop(_, _, _, _)
\* the for loop of VFatDirEntryIter::next over es[i..]
next_loop(es, i, lfn_vec, has_lfn) ==
    IF i >= Len(es) THEN IterNone(i)
    ELSE IF es[i + 1].seq = 0 THEN IterNone(i + 1)
    ELSE IF es[i + 1].seq = 229 THEN next_loop(es, i + 1, lfn_vec, has_lfn)
    ELSE IF lfn(es[i + 1].attr)
    THEN IF es[i + 1].seq % 32 = 0 THEN IterPanic(i + 1)
         ELSE next_loop(es, i + 1, lfn_store(lfn_vec, es[i + 1]), TRUE)
    ELSE next_regular(i + 1, es[i + 1], lfn_vec, has_lfn)

\* VFatDirEntryIter::next with self.entries = es and self.iter = i
next(es, i) == next_loop(es, i, [k \in 1..(LfnChars * LfnSlots) |-> 0], FALSE)

\* u8::to_ascii_lowercase
to_ascii_lowercase(c) == IF c >= 65 /\ c <= 90 THEN c + 32 ELSE c

\* the comparison with case
eq_ignore_ascii_case_m(a, b) == a = b

\* str::eq_ignore_ascii_case
eq_ignore_ascii_case(a, b) ==
    /\ Len(a) = Len(b)
    /\ \A k \in 1..Len(a) : to_ascii_lowercase(a[k]) = to_ascii_lowercase(b[k])

RECURSIVE find_loop(_, _, _)
find_step(es, name, r) ==
    IF r.kind = "panic" THEN [res |-> "panic", entry |-> NoEntry]
    ELSE IF r.kind = "None" THEN [res |-> "NotFound", entry |-> NoEntry]
    ELSE IF eq_ignore_ascii_case(r.entry.name, name) THEN [res |-> "Ok", entry |-> r.entry]
    ELSE find_loop(es, r.iter, name)

\* `for entry in self.entries()?` of Dir::find, the iterator being at i
find_loop(es, i, name) == find_step(es, name, next(es, i))

find_str(es, n) ==
    IF ~n.ok THEN [res |-> "InvalidInput", entry |-> NoEntry]
    ELSE find_loop(es, 0, n.chars)

\* Dir::find(name) on the directory whose slots are es, name an OsStr
find(es, name) == find_str(es, from_utf8(name))

\* the names find is called with: "AB", "ab", "HELLO~1.TXT", "hello~1.txt",
\* "HELLO-WORLD.TXT", "hello-world.txt", and a byte string that is not UTF-8
FindNames ==
    { << 65, 66 >>, << 97, 98 >>,
      << 72, 69, 76, 76, 79, 126, 49, 46, 84, 88, 84 >>,
      << 104, 101, 108, 108, 111, 126, 49, 46, 116, 120, 116 >>,
      << 72, 69, 76, 76, 79, 45, 87, 79, 82, 76, 68, 46, 84, 88, 84 >>,
      << 104, 101, 108, 108, 111, 45, 119, 111, 114, 108, 100, 46, 116, 120, 116 >>,
      << 97, 255 >> }

\* entries() has read the chain of a directory of DirSlots slots
InitDir ==
    /\ vfat = Geometry(PhysSectorSize, 1)
    /\ fat = [c \in 0..MaxCluster |-> 536870911]
    /\ cache = EmptyCache
    /\ rc = IdleChain
    /\ file = NoFile
    /\ fres = NoCall
    /\ entries \in [1..DirSlots -> SlotUniverse]
    /\ iter = 0
    /\ hist = << >>
    /\ fnd = NoFind
    /\ NoFs

NextDone(r) ==
    /\ iter' = r.iter
    /\ hist' = Append(hist, [kind |-> r.kind, iter |-> r.iter, entry |-> r.entry])
    /\ UNCHANGED <<vfat, fat, cache, rc, file, fres, entries, fnd, fsVars>>

\* the consumer calls next(); it goes on after a None as long as slots are left
DirNext ==
    /\ fnd.op = "none"
    /\ \A k \in 1..Len(hist) : hist[k].kind # "panic"
    /\ iter < Len(entries) \/ \A k \in 1..Len(hist) : hist[k].kind # "None"
    /\ NextDone(next(entries, iter))

FindDone(name, r) ==
    /\ fnd' = [op |-> "find", arg |-> name, res |-> r.res, entry |-> r.entry]
    /\ UNCHANGED <<vfat, fat, cache, rc, file, fres, entries, iter, hist, fsVars>>

\* Dir::find(name) on the directory
DirFind(name) ==
    /\ fnd.op = "none"
    /\ hist = << >>
    /\ FindDone(name, find(entries, name))

NextDir ==
    \/ DirNext
    \/ \E name \in FindNames : DirFind(name)

SpecDir == InitDir /\ [][NextDir]_vars

\* ------------------------------------------------------------ path lookup

\* the number of slots of each directory of the volumes opened
TreeSlots == 2

RECURSIVE SplitAt(_, _)
\* the byte strings between the separators sep of bytes
SplitAt(bytes, sep) ==
    LET seps == { k \in 1..Len(bytes) : bytes[k] = sep }
    IN  IF seps = {} THEN << bytes >>
        ELSE LET k == CHOOSE k \in seps : \A j \in seps : k <= j
             IN  << SubSeq(bytes, 1, k - 1) >> \o SplitAt(SubSeq(bytes, k + 1, Len(bytes)), sep)

Component(kind, name) == [kind |-> kind, name |-> name]

RECURSIVE components_from(_, _, _)
\* the components of the segments segs[k..]: an empty segment and a "." after
\* the front yield nothing
components_from(segs, k, has_root) ==
    IF k > Len(segs) THEN << >>
    ELSE IF segs[k] = << >> THEN components_from(segs, k + 1, has_root)
    ELSE IF segs[k] = << 46 >>
    THEN IF k = 1 /\ ~ has_root
         THEN << Component("CurDir", << >>) >> \o components_from(segs, k + 1, has_root)
         ELSE components_from(segs, k + 1, has_root)
    ELSE IF segs[k] = << 46, 46 >>
    THEN << Component("ParentDir", << >>) >> \o components_from(segs, k + 1, has_root)
    ELSE << Component("Normal", segs[k]) >> \o components_from(segs, k + 1, has_root)

\* Path::components of a Unix path
components(path) ==
    IF path = << >> THEN << >>
    ELSE IF path[1] = 47
    THEN << Component("RootDir", << >>) >> \o components_from(SplitAt(path, 47), 1, TRUE)
    ELSE components_from(SplitAt(path, 47), 1, FALSE)

\* Dir::root: Dir { name: "/", first_cluster: vfat.root_dir_cluster }
root(v) == [name |-> << 47 >>, first_cluster |-> v.root_dir_cluster, dir |-> TRUE, slot |-> 0]

\* a directory whose cluster chain read_chain fails on
BadChain == << "Err" >>

\* Dir::entries of the directory d: the slots of its chain, or the error of read_chain
dir_entries(t, d) ==
    IF t[d.first_cluster] = BadChain THEN [ok |-> FALSE, entries |-> << >>]
    ELSE [ok |-> TRUE, entries |-> t[d.first_cluster]]

dir_find_in(es, n) ==
    IF ~ es.ok THEN [res |-> "Other", entry |-> NoEntry]
    ELSE find_loop(es.entries, 0, n.chars)

dir_find_str(t, d, n) ==
    IF ~ n.ok THEN [res |-> "InvalidInput", entry |-> NoEntry]
    ELSE dir_find_in(dir_entries(t, d), n)

\* Dir::find(name) of the directory d of the volume t
dir_find(t, d, name) == dir_find_str(t, d, from_utf8(name))

as_dir_m(e) == TRUE

\* Entry::as_dir(..).is_some()
as_dir(e) == e.dir

OpenErr(kind) == [res |-> kind, entry |-> NoEntry]

RECURSIVE open_loop(_, _, _)
RECURSIVE open_found(_, _, _)

\* `cur_dir = ....find(name)?`
open_found(t, r, rest) ==
    IF r.res # "Ok" THEN OpenErr(r.res) ELSE open_loop(t, r.entry, rest)

\* the for loop of open over the components comps, cur being cur_dir
open_loop(t, cur, comps) ==
    IF comps = << >> THEN [res |-> "Ok", entry |-> cur]
    ELSE IF Head(comps).kind = "RootDir" THEN open_loop(t, cur, Tail(comps))
    ELSE IF Head(comps).kind = "Normal"
    THEN IF ~ as_dir(cur) THEN OpenErr("NotFound")
         ELSE open_found(t, dir_find(t, cur, Head(comps).name), Tail(comps))
    ELSE OpenErr("panic")

\* FileSystem::open(path)
open(v, t, path) == open_loop(t, root(v), components(path))

\* the directories of the volumes opened
TreeDirs ==
    { BadChain } \cup
    [1..TreeSlots -> { EndSlot,
                       LfnSlot(1, << 97, 98, 0 >>),
                       LfnSlot(1, << 55296, 0 >>),
                       ShortSlot(Hello1, Txt, 32, 3),
                       ShortSlot(Ab8, Blank3, AttrDirectory, 4) }]

\* the paths opened: "/", "", "/AB", "ab", "/ab/HELLO~1.TXT", "//AB/AB/",
\* "/HELLO~1.TXT/AB", "/AB/./ab", "./AB", "/AB/..", "/AB/xt", and "/A\xFF"
OpenPaths ==
    { << 47 >>, << >>, << 47, 65, 66 >>, << 97, 98 >>,
      << 47, 97, 98, 47 >> \o << 72, 69, 76, 76, 79, 126, 49, 46, 84, 88, 84 >>,
      << 47, 47, 65, 66, 47, 65, 66, 47 >>,
      << 47, 72, 69, 76, 76, 79, 126, 49, 46, 84, 88, 84, 47, 65, 66 >>,
      << 47, 65, 66, 47, 46, 47, 97, 98 >>,
      << 46, 47, 65, 66 >>,
      << 47, 65, 66, 47, 46, 46 >>,
      << 47, 65, 66, 47, 120, 116 >>,
      << 47, 65, 255 >> }

\* a mounted volume whose root directory is cluster 2; cluster 3 holds a file
InitOpen ==
    /\ vfat = Geometry(PhysSectorSize, 1)
    /\ fat = [c \in 0..MaxCluster |-> 536870911]
    /\ cache = EmptyCache
    /\ rc = IdleChain
    /\ file = NoFile
    /\ fres = NoCall
    /\ NoDir
    /\ \E r, d \in TreeDirs :
          tree = [c \in 2..4 |->
                    IF c = 2 THEN r
                    ELSE IF c = 4 THEN d
                    ELSE [j \in 1..TreeSlots |-> ShortSlot(Ab8, Blank3, AttrDirectory, 4)]]
    /\ opn = NoOpen
    /\ its = << >>
    /\ img = NoImage
    /\ mnt = NoMount
    /\ devlog = << >>
    /\ cres = NoCacheCall

OpenDone(path, r) ==
    /\ opn' = [op |-> "open", path |-> path, res |-> r.res, entry |-> r.entry]
    /\ UNCHANGED <<vfat, fat, cache, rc, file, fres, dirVars, tree, its, img, mnt, devlog, cres>>

\* FileSystem::open(path); nothing runs after a panic
Open(path) ==
    /\ opn.res # "panic"
    /\ OpenDone(path, open(vfat, tree, path))

NextOpen == \E path \in OpenPaths : Open(path)

SpecOpen == InitOpen /\ [][NextOpen]_vars

\* ------------------------------------------------- iterators side by side

\* the number of iterators alive at once
MaxIters == 2

\* Dir::entries: VFatDirEntryIter { entries: buf.cast(), iter: 0 }; yielded
\* is what its next() has returned so far
new_iter(es) == [entries |-> es.entries, iter |-> 0, yielded |-> << >>]

iter_of_m(is, k) == is[1].iter

\* self.iter of the k-th iterator
iter_of(is, k) == is[k].iter

\* the k-th iterator after its next() returned r
iter_after(it, r) ==
    [entries |-> it.entries, iter |-> r.iter,
     yielded |-> Append(it.yielded, [kind |-> r.kind, entry |-> r.entry])]

\* next() on the k-th of the iterators is
iters_next(is, k) ==
    [is EXCEPT ![k] = iter_after(is[k], next(is[k].entries, iter_of(is, k)))]

\* the root directory of a mounted volume, readable
InitIters ==
    /\ vfat = Geometry(PhysSectorSize, 1)
    /\ fat = [c \in 0..MaxCluster |-> 536870911]
    /\ cache = EmptyCache
    /\ rc = IdleChain
    /\ file = NoFile
    /\ fres = NoCall
    /\ NoDir
    /\ \E r \in [1..DirSlots -> { EndSlot,
                                  LfnSlot(1, << 97, 98, 0 >>),
                                  LfnSlot(1, << 55296, 0 >>),
                                  ShortSlot(Hello1, Txt, 32, 3),
                                  ShortSlot(Ab8, Blank3, AttrDirectory, 4) }] :
          tree = [c \in {2} |-> r]
    /\ opn = NoOpen
    /\ its = << >>
    /\ img = NoImage
    /\ mnt = NoMount
    /\ devlog = << >>
    /\ cres = NoCacheCall

\* entries() on the root directory
Entries ==
    /\ Len(its) < MaxIters
    /\ its' = Append(its, new_iter(dir_entries(tree, root(vfat))))
    /\ UNCHANGED <<vfat, fat, cache, rc, file, fres, dirVars, tree, opn, img, mnt, devlog, cres>>

\* a for loop advances the k-th iterator, until it signals the end
ItNext(k) ==
    /\ k \in 1..Len(its)
    /\ \A j \in 1..Len(its[k].yielded) : its[k].yielded[j].kind = "Some"
    /\ its' = iters_next(its, k)
    /\ UNCHANGED <<vfat, fat, cache, rc, file, fres, dirVars, tree, opn, img, mnt, devlog, cres>>

NextIters ==
    \/ Entries
    \/ \E k \in 1..MaxIters : ItNext(k)

SpecIters == InitIters /\ [][NextIters]_vars

\* ------------------------------------------------------------------- mount

\* size_of::<MasterBootRecord>() and size_of::<BiosParameterBlock>(), and the
\* sector size of the devices mounted
SectorBytes == 512
\* the offsets of partition_table and signature in MasterBootRecord, after
\* bootstrap: [u8; 436] and disk_id: [u8; 10], and the size of PartitionEntry
PartitionTableAt == 436 + 10
PartitionEntrySize == 16
MbrSignatureAt == PartitionTableAt + 4 * PartitionEntrySize

\* the sector sec with the bytes put at offset off (counted from 0)
WithBytes(sec, off, bytes) ==
    [k \in 1..Len(sec) |->
        IF k > off /\ k <= off + Len(bytes) THEN bytes[k - off] ELSE sec[k]]

Le16(w) == << w % 256, (w \div 256) % 256 >>

\* the u8, u16 and u32 stored little-endian at offset off of a packed struct
U8At(sec, off) == sec[off + 1]
U16At(sec, off) == sec[off + 1] + 256 * sec[off + 2]
U32At(sec, off) ==
    sec[off + 1] + 256 * sec[off + 2] + 65536 * sec[off + 3] + 16777216 * sec[off + 4]

ZeroSector == [k \in 1..SectorBytes |-> 0]

\* the 16 bytes of a partition entry on disk
PartitionBytes(boot, type, rel) ==
    << boot, 0, 0, 0, type, 0, 0, 0 >> \o Le32(rel) \o Le32(8)

\* sector 0 of an image: four partition entries at 446 and the last two bytes
MbrImage(parts, sig) ==
    WithBytes(
      [k \in 1..SectorBytes |->
          IF k > 446 /\ k <= 510 THEN parts[((k - 447) \div 16) + 1][((k - 447) % 16) + 1]
          ELSE 0],
      510, sig)

\* a boot sector of an image: the BPB fields at their FAT32 offsets
BpbImage(bps, spc, reserved, nfat, spf16, spf32, rootc, sig) ==
    WithBytes(WithBytes(WithBytes(WithBytes(WithBytes(WithBytes(WithBytes(WithBytes(
      ZeroSector, 11, Le16(bps)), 13, << spc >>), 14, Le16(reserved)), 16, << nfat >>),
      22, Le16(spf16)), 36, Le32(spf32)), 44, Le32(rootc)), 510, sig)

\* BlockDevice::read_sector(n, buf) of the device mounted, buf of SectorBytes
\* bytes: the sector, or an I/O error past the end of the device
dev_read_sector(im, n) ==
    IF n < Len(im.sectors) THEN [ok |-> TRUE, data |-> im.sectors[n + 1]]
    ELSE [ok |-> FALSE, data |-> << >>]

\* partition_table[i] of the MasterBootRecord laid over the bytes sec
partition_entry(sec, i) ==
    [boot_indicator  |-> U8At(sec, PartitionTableAt + i * PartitionEntrySize),
     partition_type  |-> U8At(sec, PartitionTableAt + i * PartitionEntrySize + 4),
     relative_sector |-> U32At(sec, PartitionTableAt + i * PartitionEntrySize + 8),
     total_sectors   |-> U32At(sec, PartitionTableAt + i * PartitionEntrySize + 12)]

\* the MasterBootRecord laid over the bytes sec
mbr_cast(sec) ==
    [partition_table |-> [i \in 0..3 |-> partition_entry(sec, i)],
     signature       |-> << U8At(sec, MbrSignatureAt), U8At(sec, MbrSignatureAt + 1) >>]

boot_indicator_ok_m(b) == b = 0

\* part_tab.boot_indicator != 0 && part_tab.boot_indicator != 0x80, negated
boot_indicator_ok(b) == b = 0 \/ b = 128

signature_ok_m(sig) == TRUE

\* mbr.signature != [0x55, 0xAA], negated
signature_ok(sig) == sig = << 85, 170 >>

\* the checks of MasterBootRecord::from on the record read
mbr_check(mbr) ==
    IF ~ signature_ok(mbr.signature) THEN [res |-> "BadSignature", index |-> 0, mbr |-> mbr]
    ELSE LET bad == { i \in 0..3 : ~ boot_indicator_ok(mbr.partition_table[i].boot_indicator) }
         IN  IF bad # {}
             THEN [res |-> "UnknownBootIndicator",
                   index |-> CHOOSE i \in bad : \A j \in bad : i <= j, mbr |-> mbr]
             ELSE [res |-> "Ok", index |-> 0, mbr |-> mbr]

mbr_from_read(r) ==
    IF ~ r.ok THEN [res |-> "Io", index |-> 0, mbr |-> << >>]
    ELSE mbr_check(mbr_cast(r.data))

\* MasterBootRecord::from(device)
mbr_from(im) == mbr_from_read(dev_read_sector(im, 0))

\* MasterBootRecord::first_fat32: the index of the first entry of type 0x0B
\* or 0x0C, 4 when there is none
first_fat32(mbr) ==
    LET fat32 == { i \in 0..3 : mbr.partition_table[i].partition_type \in {11, 12} }
    IN  IF fat32 = {} THEN 4 ELSE CHOOSE i \in fat32 : \A j \in fat32 : i <= j

\* the BiosParameterBlock laid over the bytes sec
ebpb_cast(sec) ==
    [bytes_per_sector     |-> U16At(sec, 11),
     sectors_per_cluster  |-> U8At(sec, 13),
     num_reserved_sectors |-> U16At(sec, 14),
     num_fat              |-> U8At(sec, 16),
     sectors_per_fat      |-> U16At(sec, 22),
     sectors_per_fat_32   |-> U32At(sec, 36),
     root_cluster         |-> U32At(sec, 44),
     bootable_signature   |-> U16At(sec, 510)]

ebpb_check(bpb) ==
    IF bpb.bootable_signature # 43605 THEN [res |-> "BadSignature", bpb |-> bpb]
    ELSE [res |-> "Ok", bpb |-> bpb]

ebpb_from_read(r) ==
    IF ~ r.ok THEN [res |-> "Io", bpb |-> << >>] ELSE ebpb_check(ebpb_cast(r.data))

\* BiosParameterBlock::from(device, sector)
ebpb_from(im, sector) == ebpb_from_read(dev_read_sector(im, sector))

sectors_per_fat_m(bpb) == bpb.sectors_per_fat_32

\* BiosParameterBlock::sectors_per_fat
sectors_per_fat(bpb) ==
    IF bpb.sectors_per_fat # 0 THEN bpb.sectors_per_fat ELSE bpb.sectors_per_fat_32

\* the assertion of CachedDevice::new
cached_device_new(sector_size, partition) == partition.sector_size >= sector_size

\* VFat::from returns an error, or panics, at stage; read are the sectors read
MountErr(stage, res, index, read) ==
    [stage |-> stage, res |-> res, index |-> index, vfat |-> << >>, read |-> read,
     cache |-> FALSE]

\* the VFat built by VFat::from from bpb_start and the BPB
vfat_fields(bpb_start, ebpb) ==
    [bytes_per_sector    |-> ebpb.bytes_per_sector,
     sectors_per_cluster |-> ebpb.sectors_per_cluster,
     sectors_per_fat     |-> sectors_per_fat(ebpb),
     fat_start_sector    |-> bpb_start + ebpb.num_reserved_sectors,
     data_start_sector   |-> bpb_start + ebpb.num_reserved_sectors
                                + ebpb.num_fat * sectors_per_fat(ebpb),
     root_dir_cluster    |-> ebpb.root_cluster,
     partition           |-> [start |-> bpb_start, sector_size |-> ebpb.bytes_per_sector]]

\* VFat::from after the BPB was read: CachedDevice::new, then the VFat
vfat_from_ebpb(im, bpb_start, e) ==
    IF e.res # "Ok" THEN MountErr("ebpb", e.res, 0, << 0, bpb_start >>)
    ELSE IF ~ cached_device_new(im.sector_size,
                                [start |-> bpb_start, sector_size |-> e.bpb.bytes_per_sector])
    THEN MountErr("cache", "panic", 0, << 0, bpb_start >>)
    ELSE [stage |-> "done", res |-> "Ok", index |-> 0, vfat |-> vfat_fields(bpb_start, e.bpb),
          read |-> << 0, bpb_start >>, cache |-> TRUE]

bpb_start_m(mbr, i) == mbr.partition_table[3 - i].relative_sector

\* mbr.first_fat32()....relative_sector as u64
bpb_start_of(mbr, i) == mbr.partition_table[i].relative_sector

\* VFat::from after the MBR was read
vfat_from_mbr(im, m, i) ==
    IF m.res # "Ok" THEN MountErr("mbr", m.res, m.index, << 0 >>)
    ELSE IF i = 4 THEN MountErr("first_fat32", "NotFound", 0, << 0 >>)
    ELSE vfat_from_ebpb(im, bpb_start_of(m.mbr, i), ebpb_from(im, bpb_start_of(m.mbr, i)))

vfat_from_parsed(im, m) ==
    vfat_from_mbr(im, m, IF m.res = "Ok" THEN first_fat32(m.mbr) ELSE 4)

\* VFat::from(device)
vfat_from(im) == vfat_from_parsed(im, mbr_from(im))

\* the partition entries of the images: none, NTFS at sector 1, FAT32 (0x0B)
\* at sector 1, active FAT32 (0x0C) at sector 2, and FAT32 with the boot
\* indicator 0x7F
ImageParts ==
    { PartitionBytes(0, 0, 0), PartitionBytes(128, 7, 1), PartitionBytes(0, 11, 1),
      PartitionBytes(128, 12, 2), PartitionBytes(127, 11, 1) }

ImageSignatures == { << 85, 170 >>, << 0, 0 >>, << 170, 85 >> }

\* the boot sectors at sector 1: 512-byte sectors with the 16-bit
\* sectors_per_fat 0 or 3, a bad signature, and 256-byte sectors
ImageBoot1 ==
    { BpbImage(512, 1, 1, 2, 0, 5, 2, << 85, 170 >>),
      BpbImage(512, 2, 4, 2, 3, 5, 2, << 85, 170 >>),
      BpbImage(512, 1, 1, 2, 0, 5, 2, << 0, 0 >>),
      BpbImage(256, 1, 1, 2, 0, 5, 2, << 85, 170 >>) }

\* the boot sectors at sector 2: 1024-byte sectors, and a bad signature
ImageBoot2 ==
    { BpbImage(1024, 1, 2, 1, 0, 4, 3, << 85, 170 >>),
      BpbImage(1024, 1, 2, 1, 0, 4, 3, << 85, 0 >>) }

\* a device of 512-byte sectors: empty, or sector 0 and one or two boot sectors
InitMount ==
    /\ vfat = Geometry(PhysSectorSize, 1)
    /\ fat = [c \in 0..MaxCluster |-> 536870911]
    /\ cache = EmptyCache
    /\ rc = IdleChain
    /\ file = NoFile
    /\ fres = NoCall
    /\ NoDir
    /\ tree = << >>
    /\ opn = NoOpen
    /\ its = << >>
    /\ \/ img = [sector_size |-> SectorBytes, sectors |-> << >>]
       \/ \E parts \in [1..4 -> ImageParts], sig \in ImageSignatures, b1 \in ImageBoot1 :
             \/ img = [sector_size |-> SectorBytes,
                       sectors |-> << MbrImage(parts, sig), b1 >>]
             \/ \E b2 \in ImageBoot2 :
                   img = [sector_size |-> SectorBytes,
                          sectors |-> << MbrImage(parts, sig), b1, b2 >>]
    /\ mnt = NoMount
    /\ devlog = << >>
    /\ cres = NoCacheCall

\* VFat::from(device) is called once on the device
Mount ==
    /\ mnt.res = "none"
    /\ mnt' = vfat_from(img)
    /\ UNCHANGED <<vfat, fat, cache, rc, file, fres, dirVars, tree, opn, its, img, devlog, cres>>

NextMount == Mount

SpecMount == InitMount /\ [][NextMount]_vars

\* ------------------------------------------------- the cache over a device

\* the number of physical sector reads after which no call is made
MaxDevReads == 4

\* the first logical sector after the last cluster of the volume
LogicalEnd(v) == v.data_start_sector + (MaxCluster - 1) * v.sectors_per_cluster

\* the number of physical sectors of a device that holds the whole volume
FullDevice(v) ==
    v.partition.start
        + (LogicalEnd(v) - v.partition.start) * (v.partition.sector_size \div PhysSectorSize)

\* the bytes of physical sector p of the device dv: what the last
\* write_sector(p, ..) the device served left there, else the volume's bytes
RECURSIVE dev_sector(_, _, _, _, _)
dev_sector(v, f, dv, p, k) ==
    IF k = 0 THEN DeviceSector(v, f, p)
    ELSE IF dv.writes[k][1] = p THEN dv.writes[k][2]
    ELSE dev_sector(v, f, dv, p, k - 1)

\* BlockDevice::read_all_sector(p, &mut data) of the device dv under the
\* cache: an I/O error past its last sector
dev_read_all_sector(v, f, dv, p) ==
    IF p < dv.count THEN [ok |-> TRUE, data |-> dev_sector(v, f, dv, p, Len(dv.writes))]
    ELSE [ok |-> FALSE, data |-> << >>]

RECURSIVE read_all_loop(_, _, _, _, _, _)
read_all_step(v, f, dv, st, phy, count, r) ==
    IF ~ r.ok THEN [ok |-> FALSE, data |-> st.data, reads |-> Append(st.reads, phy)]
    ELSE read_all_loop(v, f, dv,
             [ok |-> TRUE, data |-> st.data \o r.data, reads |-> Append(st.reads, phy)],
             phy + 1, count - 1)

\* `for i in 0..factor { self.device.read_all_sector(phy_sec + i, &mut data)?; }`
\* st.reads are the physical sectors asked of the device
read_all_loop(v, f, dv, st, phy, count) ==
    IF count = 0 THEN st
    ELSE read_all_step(v, f, dv, st, phy, count, dev_read_all_sector(v, f, dv, phy))

read_entry_io_at(v, f, dv, pf) ==
    read_all_loop(v, f, dv, [ok |-> TRUE, data |-> << >>, reads |-> << >>], pf[1], pf[2])

read_entry_io_m(v, f, dv, sector) ==
    read_entry_io_at(v, f, dv, << virtual_to_physical(v, sector)[1], 1 >>)

\* CachedDevice::read_entry_from_dev on a device that can fail
read_entry_io(v, f, dv, sector) == read_entry_io_at(v, f, dv, virtual_to_physical(v, sector))

cache_hit_m(c, sector) == FALSE

\* self.cache.contains_key(&sector)
cache_hit(c, sector) == sector \in DOMAIN c

\* self.cache.insert(sector, entry)
cache_insert(c, sector, data) ==
    [s \in DOMAIN c \cup {sector} |->
        IF s = sector THEN [data |-> data, dirty |-> FALSE] ELSE c[s]]

\* what a call on the cache returns: res, the sector's bytes, whether it was
\* a hit, the physical sectors read, and the cache after it
CacheOk(c, sector, hit, reads) ==
    [res |-> "Ok", cache |-> c, data |-> c[sector].data, hit |-> hit, reads |-> reads,
     writes |-> << >>]

cache_miss_m(c, sector, e) ==
    [CacheOk(cache_insert(c, sector, e.data), sector, FALSE, e.reads)
        EXCEPT !.res = IF e.ok THEN "Ok" ELSE "Io"]

cache_miss(c, sector, e) ==
    IF ~ e.ok THEN [res |-> "Io", cache |-> c, data |-> << >>, hit |-> FALSE, reads |-> e.reads,
                    writes |-> << >>]
    ELSE CacheOk(cache_insert(c, sector, e.data), sector, FALSE, e.reads)

\* CachedDevice::get(sector)
cache_get(v, f, dv, c, sector) ==
    IF cache_hit(c, sector) THEN CacheOk(c, sector, TRUE, << >>)
    ELSE cache_miss(c, sector, read_entry_io(v, f, dv, sector))

\* CachedDevice::get_mut(sector)
cache_get_mut(v, f, dv, c, sector) ==
    IF cache_hit(c, sector) THEN CacheOk(c, sector, TRUE, << >>)
    ELSE cache_miss(c, sector, read_entry_io(v, f, dv, sector))

\* buf[..len].copy_from_slice(&sec[..len]); Ok(len): the bytes copied
cache_read_copy(r, buflen) ==
    IF r.res # "Ok" THEN r
    ELSE [r EXCEPT !.data = SubSeq(r.data, 1, Min(Len(r.data), buflen))]

\* BlockDevice::read_sector(n, buf) of the CachedDevice, buf of buflen bytes
cache_read_sector(v, f, dv, c, n, buflen) ==
    cache_read_copy(cache_get(v, f, dv, c, n), buflen)

\* BlockDevice::sector_size() of the CachedDevice: the trait's default
\* method, which `impl BlockDevice for CachedDevice` does not override; a
\* value of the trait, the same for every partition
cached_sector_size(dv) == dv.trait_sector_size

\* sec[..len].copy_from_slice(&buf[..len]); Ok(len): data are the bytes
\* written, Len(data) the count returned
cache_write_copy(r, n, buf) ==
    IF r.res # "Ok" THEN r
    ELSE [r EXCEPT !.cache = [r.cache EXCEPT ![n].data =
                                 SubSeq(buf, 1, Min(Len(r.data), Len(buf)))
                                     \o SubSeq(@, Min(Len(r.data), Len(buf)) + 1, Len(@))],
                   !.data = SubSeq(buf, 1, Min(Len(r.data), Len(buf)))]

cache_write_sector_m(v, f, dv, c, n, buf) ==
    [cache_write_copy(cache_get_mut(v, f, dv, c, n), n, buf)
        EXCEPT !.writes = << << virtual_to_physical(v, n)[1], buf >> >>]

\* BlockDevice::write_sector(n, buf) of the CachedDevice
cache_write_sector(v, f, dv, c, n, buf) ==
    IF Len(buf) < cached_sector_size(dv)
    THEN [res |-> "UnexpectedEof", cache |-> c, data |-> << >>, hit |-> FALSE,
          reads |-> << >>, writes |-> << >>]
    ELSE cache_write_copy(cache_get_mut(v, f, dv, c, n), n, buf)

\* the buffers given to write_sector: one physical sector long, two
\* physical sectors long
WriteBufs ==
    { [k \in 1..len |-> 255 - k] : len \in {PhysSectorSize, 2 * PhysSectorSize} }

\* the virtual sectors written: sector 0 and the last sector of the volume
WriteSectors(v) == { 0, LogicalEnd(v) - 1 }

\* the virtual sectors asked for: sector 0, the partition's first sector, the
\* first FAT sector, the last sector of the volume, and the one after it
CacheSectors(v) ==
    { 0, v.partition.start, v.fat_start_sector, LogicalEnd(v) - 1, LogicalEnd(v) }

\* a mounted volume on a device that holds it, or lacks its last physical sector
InitCache ==
    /\ vfat \in Geometries
    /\ fat = [c \in 0..MaxCluster |-> IF c < MaxCluster THEN c + 1 ELSE 268435455]
    /\ cache = EmptyCache
    /\ rc = IdleChain
    /\ file = NoFile
    /\ fres = NoCall
    /\ NoDir
    /\ tree = << >>
    /\ opn = NoOpen
    /\ its = << >>
    /\ \E short \in {0, 1}, tss \in {PhysSectorSize, 2 * PhysSectorSize} :
          img = [sector_size |-> PhysSectorSize, count |-> FullDevice(vfat) - short,
                 trait_sector_size |-> tss, writes |-> << >>]
    /\ mnt = NoMount
    /\ devlog = << >>
    /\ cres = NoCacheCall

\* buf is the caller's buffer as it was given to read_sector or write_sector
CacheDone(op, sector, buf, r) ==
    /\ cache' = r.cache
    /\ devlog' = devlog \o r.reads
    /\ img' = [img EXCEPT !.writes = @ \o r.writes]
    /\ cres' = [op |-> op, sector |-> sector, res |-> r.res, data |-> r.data, hit |-> r.hit,
                reads |-> r.reads, buf |-> buf]
    /\ UNCHANGED <<vfat, fat, rc, file, fres, dirVars, tree, opn, its, mnt>>

CacheGet(sector) ==
    /\ Len(devlog) < MaxDevReads
    /\ CacheDone("get", sector, << >>, cache_get(vfat, fat, img, cache, sector))

CacheGetMut(sector) ==
    /\ Len(devlog) < MaxDevReads
    /\ CacheDone("get_mut", sector, << >>, cache_get_mut(vfat, fat, img, cache, sector))

CacheReadSector(n, buflen) ==
    /\ Len(devlog) < MaxDevReads
    /\ CacheDone("read_sector", n, [k \in 1..buflen |-> 0],
                 cache_read_sector(vfat, fat, img, cache, n, buflen))

CacheWriteSector(n, buf) ==
    /\ Len(devlog) < MaxDevReads
    /\ CacheDone("write_sector", n, buf, cache_write_sector(vfat, fat, img, cache, n, buf))

NextCache ==
    \/ \E sector \in CacheSectors(vfat) : CacheGet(sector)
    \/ \E sector \in CacheSectors(vfat) : CacheGetMut(sector)
    \/ \E n \in CacheSectors(vfat), buflen \in {1, 2 * PhysSectorSize} : CacheReadSector(n, buflen)
    \/ \E n \in WriteSectors(vfat), buf \in WriteBufs : CacheWriteSector(n, buf)

SpecCache == InitCache /\ [][NextCache]_vars

\* ------------------------------------------- the facade after failed calls

\* FAT tables whose chains from clusters 2 and 3 end at an Eoc, a Bad or a
\* Reserved entry; the entries of the other clusters are Bad
RecoverFatTables ==
    { [c \in 0..MaxCluster |->
          IF c = 0 THEN 268435448 ELSE IF c = 1 THEN 268435455
          ELSE IF c = 2 THEN a ELSE IF c = 3 THEN b ELSE 268435447] :
      a \in {3, 268435447}, b \in {268435455, 1} }

\* a mounted volume on a device that holds it, and may hold one physical
\* sector more
InitRecover ==
    /\ vfat \in Geometries
    /\ fat \in RecoverFatTables
    /\ cache = EmptyCache
    /\ rc = IdleChain
    /\ file = NoFile
    /\ fres = NoCall
    /\ NoDir
    /\ tree = << >>
    /\ opn = NoOpen
    /\ its = << >>
    /\ \E more \in {0, 1} :
          img = [sector_size |-> PhysSectorSize, count |-> FullDevice(vfat) + more,
                 trait_sector_size |-> PhysSectorSize, writes |-> << >>]
    /\ mnt = NoMount
    /\ devlog = << >>
    /\ cres = NoCacheCall

\* get(sector) between two calls of read_chain
RecoverGet(sector) ==
    /\ rc.pc # "loop"
    /\ CacheGet(sector)

\* read_chain(start, buf) is called on the facade an earlier read_chain has
\* returned from; prev is what that call returned
ReadChainAgain(start, b) ==
    /\ rc.pc \in {"ok", "err"}
    /\ rc' = [pc |-> "loop", start |-> start, cur |-> start, read |-> 0,
              buf |-> b, buf0 |-> b, path |-> << >>, prev |-> rc.pc]
    /\ UNCHANGED <<vfat, fat, cache, file, fres, dirVars, fsVars>>

NextRecover ==
    \/ \E sector \in {LogicalEnd(vfat), LogicalEnd(vfat) + 1} : RecoverGet(sector)
    \/ \E start \in Clusters : ReadChainCall(start, << >>)
    \/ \E start \in Clusters : ReadChainAgain(start, << >>)
    \/ ReadChainRound

SpecRecover == InitRecover /\ [][NextRecover]_vars

\* ------------------------------------------------------ the write-side calls

\* unimplemented!("read only file system"): the call panics with this message
ReadOnlyPanic == "panic: not yet implemented: read only file system"

\* unimplemented!(): the call panics with this message
UnimplementedPanic == "panic: not yet implemented"

create_file_m(path) == [res |-> "Ok", entry |-> NoEntry]

\* FileSystem::create_file(_path)
create_file(path) == [res |-> ReadOnlyPanic, entry |-> NoEntry]

\* FileSystem::create_dir(_path, _parents)
create_dir(path, parents) == [res |-> ReadOnlyPanic, entry |-> NoEntry]

\* FileSystem::rename(_from, _to)
rename(from, to) == [res |-> ReadOnlyPanic, entry |-> NoEntry]

\* FileSystem::remove(_path, _children)
remove(path, children) == [res |-> ReadOnlyPanic, entry |-> NoEntry]

\* io::Write::write(_buf) of a File
file_write(fl, buf) == [res |-> UnimplementedPanic, val |-> 0]

\* io::Write::flush() of a File
file_flush(fl) == [res |-> UnimplementedPanic, val |-> 0]

\* traits::File::sync() of a File
file_sync(fl) == [res |-> UnimplementedPanic, val |-> 0]

\* the caches of the facades the calls are made on: empty, and holding the
\* first sector of the FAT
UsedCaches(v, f) == { EmptyCache, get(v, f, EmptyCache, v.fat_start_sector) }

\* a mounted volume as in InitOpen, its cache empty or not, and a file of
\* three bytes in cluster 3
InitReadOnly ==
    /\ vfat = Geometry(PhysSectorSize, 1)
    /\ fat = [c \in 0..MaxCluster |-> 536870911]
    /\ cache \in UsedCaches(vfat, fat)
    /\ rc = IdleChain
    /\ \E ptr \in 0..3 : file = [first_cluster |-> 3, size |-> 3, file_ptr |-> ptr]
    /\ fres = NoCall
    /\ NoDir
    /\ \E r \in TreeDirs :
          tree = [c \in 2..4 |->
                    IF c = 2 THEN r
                    ELSE [j \in 1..TreeSlots |-> ShortSlot(Ab8, Blank3, AttrDirectory, 4)]]
    /\ opn = NoOpen
    /\ its = << >>
    /\ img = NoImage
    /\ mnt = NoMount
    /\ devlog = << >>
    /\ cres = NoCacheCall

\* nothing runs after a panic
NoPanic == opn.res \in {"Ok", "NotFound", "InvalidInput", "Io"} /\ fres.res = "Ok"

\* a call on the FileSystem returned (or panicked with) r
FsCallDone(op, path, r) ==
    /\ opn' = [op |-> op, path |-> path, res |-> r.res, entry |-> r.entry]
    /\ UNCHANGED <<vfat, fat, cache, rc, file, fres, dirVars, tree, its, img, mnt, devlog, cres>>

\* a write-side call on the File returned (or panicked with) r
FileCallDone(op, arg, r) ==
    /\ fres' = [op |-> op, arg |-> arg, prev |-> file.file_ptr, res |-> r.res, val |-> r.val,
                data |-> << >>]
    /\ UNCHANGED <<vfat, fat, cache, rc, file, dirVars, fsVars>>

ReadOnlyOpen(path) == NoPanic /\ Open(path)

CreateFile(path) == NoPanic /\ FsCallDone("create_file", path, create_file(path))

CreateDir(path, parents) == NoPanic /\ FsCallDone("create_dir", path, create_dir(path, parents))

Rename(from, to) == NoPanic /\ FsCallDone("rename", from, rename(from, to))

Remove(path, children) == NoPanic /\ FsCallDone("remove", path, remove(path, children))

FileWrite(buf) == NoPanic /\ FileCallDone("write", Len(buf), file_write(file, buf))

FileFlush == NoPanic /\ FileCallDone("flush", 0, file_flush(file))

FileSync == NoPanic /\ FileCallDone("sync", 0, file_sync(file))

\* the paths given to the write-side calls: "/", "/AB", "ab"
WritePaths == { << 47 >>, << 47, 65, 66 >>, << 97, 98 >> }

NextReadOnly ==
    \/ \E path \in WritePaths : ReadOnlyOpen(path)
    \/ \E path \in WritePaths : CreateFile(path)
    \/ \E path \in WritePaths, parents \in BOOLEAN : CreateDir(path, parents)
    \/ \E from, to \in WritePaths : Rename(from, to)
    \/ \E path \in WritePaths, children \in BOOLEAN : Remove(path, children)
    \/ \E buf \in { << >>, << 1, 2 >> } : FileWrite(buf)
    \/ FileFlush
    \/ FileSync

SpecReadOnly == InitReadOnly /\ [][NextReadOnly]_vars

\* ------------------------------------------------ read_cluster, call by call

NoClusterCall == [pc |-> "none", cluster |-> 0, offset |-> 0, buf0 |-> << >>, buf |-> << >>,
                  read |-> 0]

\* the lengths of the buffers given to read_cluster: empty, one byte short
\* of a physical sector, one, two and four physical sectors, and one byte more
ClusterBufLens ==
    { 0, PhysSectorSize - 1, PhysSectorSize, 2 * PhysSectorSize, 4 * PhysSectorSize,
      4 * PhysSectorSize + 1 }

\* a mounted volume whose cache is empty
InitCluster ==
    /\ vfat \in Geometries
    /\ fat = [c \in 0..MaxCluster |-> 268435455]
    /\ cache = EmptyCache
    /\ rc = NoClusterCall
    /\ file = NoFile
    /\ fres = NoCall
    /\ NoDir
    /\ NoFs

ReadClusterDone(cluster, offset, buf, r) ==
    /\ rc' = [pc |-> "read_cluster", cluster |-> cluster, offset |-> offset, buf0 |-> buf,
              buf |-> r.buf, read |-> r.read]
    /\ cache' = r.cache
    /\ UNCHANGED <<vfat, fat, file, fres, dirVars, fsVars>>

\* read_cluster(cluster, offset, buf) with buf of buflen bytes
ReadCluster(cluster, offset, buflen) ==
    ReadClusterDone(cluster, offset, [k \in 1..buflen |-> 170],
        read_cluster(vfat, fat, cache, cluster, offset, [k \in 1..buflen |-> 170], 0))

NextCluster ==
    \E cluster \in Clusters, offset \in 0..3, buflen \in ClusterBufLens :
        ReadCluster(cluster, offset, buflen)

SpecCluster == InitCluster /\ [][NextCluster]_vars

\* ---------------------------------------------------- claims on read_chain

RECURSIVE FatChain(_, _, _)
\* the clusters of the chain that starts at c in table f, in chain order,
\* read off the table itself: c, then the targets of the Data links
FatChain(f, c, fuel) ==
    IF fuel = 0 THEN << >>
    ELSE IF Status(f[c]).kind = "Data"
         THEN << c >> \o FatChain(f, Status(f[c]).next, fuel - 1)
         ELSE << c >>

\* the bytes of data cluster c as they lie on the volume
ClusterData(v, c) ==
    [k \in 1..(v.bytes_per_sector * v.sectors_per_cluster) |-> DataByte(c, k - 1)]

RECURSIVE ChainData(_, _)
ChainData(v, cs) ==
    IF cs = << >> THEN << >> ELSE ClusterData(v, Head(cs)) \o ChainData(v, Tail(cs))

\* C1: a successful read_chain(start, buf) leaves the bytes buf held before
\* the call in place and puts after them the contents of the clusters of the
\* chain, in chain order, for an empty and for a non-empty initial buf.
C1_Appends ==
    rc.pc = "ok" =>
        rc.buf = rc.buf0 \o ChainData(vfat, FatChain(fat, rc.start, MaxCluster))

\* C2 as stated: a successful read_chain returns n with n = buf.len() after
\* the call, and n is a multiple of bytes_per_sector * sectors_per_cluster.
C2_ReturnsBufLen ==
    rc.pc = "ok" =>
        /\ rc.read = Len(rc.buf)
        /\ rc.read % (vfat.bytes_per_sector * vfat.sectors_per_cluster) = 0

\* C2 (amended): a successful read_chain returns n with n = buf.len() after
\* the call minus buf.len() before the call (so n = buf.len() when buf was
\* empty), and n is a multiple of bytes_per_sector * sectors_per_cluster.
C2_ReturnsBytesAdded ==
    rc.pc = "ok" =>
        /\ rc.read = Len(rc.buf) - Len(rc.buf0)
        /\ (rc.buf0 = << >> => rc.read = Len(rc.buf))
        /\ rc.read % (vfat.bytes_per_sector * vfat.sectors_per_cluster) = 0

\* a chain of at least two clusters was read to its Eoc into a non-empty buf
C2_Witness ==
    /\ rc.pc = "ok"
    /\ rc.buf0 # << >>
    /\ Len(rc.path) >= 2
    /\ vfat.sectors_per_cluster = 2

\* C3: read_chain follows a Data(next) entry to cluster next, returns Ok at
\* the first Eoc entry, and returns an error when the entry of a cluster it
\* has reached is Bad or Reserved, following no link out of such an entry.
C3_ChainTraversal ==
    LET p == rc.path
        n == Len(p)
    IN  /\ \A i \in 1..(n - 1) : Status(fat[p[i]]) = [kind |-> "Data", next |-> p[i + 1]]
        /\ n = 0 => rc.pc \in {"idle", "loop"}
        /\ n > 0 =>
            LET s == Status(fat[p[n]])
            IN  /\ p[1] = rc.start
                /\ rc.pc = "ok" <=> s.kind = "Eoc"
                /\ s.kind \in {"Bad", "Reserved"} => rc.pc = "err"
                /\ rc.pc = "err" => s.kind \notin {"Data", "Eoc"}
                /\ rc.pc = "loop" <=> s.kind = "Data"
                /\ rc.pc = "loop" => rc.cur = s.next

\* read_chain failed on a Bad or Reserved entry it reached over two links
C3_Witness ==
    /\ rc.pc = "err"
    /\ Len(rc.path) = 3
    /\ Status(fat[rc.path[3]]).kind \in {"Bad", "Reserved"}

\* --------------------------------------------------------- claims on files

\* the byte stream of the file's chain, read off the volume
FileStream == ChainData(vfat, FatChain(fat, file.first_cluster, MaxCluster))

\* C4: read returns 0 when size is 0; otherwise a read that returns Ok(n)
\* copied n = min(size - position, buf.len()) bytes of the chain's byte
\* stream, taken from offset position, and advanced position by n.
C4_ReadCopies ==
    fres.op = "read" =>
        /\ file.size = 0 => (fres.res = "Ok" /\ fres.val = 0)
        /\ (file.size # 0 /\ fres.res = "Ok") =>
            LET n == Min(file.size - fres.prev, fres.arg)
            IN  /\ fres.val = n
                /\ fres.data = SubSeq(FileStream, fres.prev + 1, fres.prev + n)
                /\ file.file_ptr = fres.prev + n

\* C5: the target of Start(n), End(n), Current(n) is n, size + n,
\* position + n; the seek sets position to the target and returns it if and
\* only if 0 <= target <= size, and fails with InvalidInput otherwise.
C5_SeekRange ==
    fres.op \in {"Start", "End", "Current"} =>
        LET target == IF fres.op = "Start" THEN fres.arg
                      ELSE IF fres.op = "End" THEN file.size + fres.arg
                      ELSE fres.prev + fres.arg
        IN  IF 0 <= target /\ target <= file.size
            THEN fres.res = "Ok" /\ fres.val = target /\ file.file_ptr = target
            ELSE fres.res = "InvalidInput"

\* ---------------------------------------------------- claims on directories

LiveLfn(e) == e.seq # 0 /\ e.seq # 229 /\ e.attr = 15
LiveShort(e) == e.seq # 0 /\ e.seq # 229 /\ e.attr # 15

\* the index of the first slot whose byte 0 is 0x00, Len(es) + 1 when none
FirstEnd(es) ==
    LET ends == { j \in 1..Len(es) : es[j].seq = 0 }
    IN  IF ends = {} THEN Len(es) + 1 ELSE CHOOSE j \in ends : \A k \in ends : j <= k

LiveShortsBeforeEnd(es) == { j \in 1..(FirstEnd(es) - 1) : LiveShort(es[j]) }

\* hist[k] is what a for loop over the iterator receives: no call before
\* it signalled the end
Received(k) == k \in 1..Len(hist) /\ \A j \in 1..k : hist[j].kind = "Some"

\* hist[k] is the first signal of the end
FirstEndSignal(k) ==
    /\ k \in 1..Len(hist)
    /\ hist[k].kind = "None"
    /\ \A j \in 1..(k - 1) : hist[j].kind = "Some"

\* C6: the entries received until the iterator first signals the end are, in
\* slot order, one per live short slot before the first 0x00 slot.
C6_OneEntryPerLiveShort ==
    \A k \in 1..Len(hist) :
        FirstEndSignal(k) =>
            /\ { hist[j].entry.slot : j \in 1..(k - 1) } = LiveShortsBeforeEnd(entries)
            /\ \A i, j \in 1..(k - 1) : i < j => hist[i].entry.slot < hist[j].entry.slot

\* the slot of the entry received before hist[k], 0 when hist[k] is the first
PrevSlot(k) == IF k = 1 THEN 0 ELSE hist[k - 1].entry.slot

\* the LFN slots accumulated for the entry hist[k]
Accumulated(k) ==
    { j \in (PrevSlot(k) + 1)..(hist[k].entry.slot - 1) : LiveLfn(entries[j]) }

\* the LFN buffer holding the slots acc of es: each unit is that of the last
\* slot of acc whose 13 units cover it, 0 where none does
LfnBuffer(es, acc) ==
    [u \in 1..(13 * 31) |->
        LET cover == { j \in acc : u > ((es[j].seq % 32) - 1) * 13
                                   /\ u <= (es[j].seq % 32) * 13 }
        IN  IF cover = {} THEN 0
            ELSE LET j == CHOOSE j \in cover : \A i \in cover : i <= j
                 IN  es[j].chars[u - ((es[j].seq % 32) - 1) * 13]]

\* units up to the first 0x0000 or 0xFFFF
RECURSIVE Truncated(_)
Truncated(units) ==
    IF units = << >> \/ Head(units) = 0 \/ Head(units) = 65535 THEN << >>
    ELSE << Head(units) >> \o Truncated(Tail(units))

RECURSIVE StripSpaces(_)
StripSpaces(cs) ==
    IF cs # << >> /\ cs[Len(cs)] = 32 THEN StripSpaces(SubSeq(cs, 1, Len(cs) - 1)) ELSE cs

\* NAME.EXT of a short slot whose bytes are ASCII
EightDotThree(e) ==
    IF StripSpaces(e.ext) = << >> THEN StripSpaces(e.name)
    ELSE StripSpaces(e.name) \o << 46 >> \o StripSpaces(e.ext)

\* C7: an entry a for loop receives carries the long name exactly when LFN
\* slots were accumulated since the entry before it (or the first slot): the
\* buffer of those slots alone, cut at the first 0x0000 or 0xFFFF; else it
\* carries the 8.3 name.
C7_LongOrShortName ==
    \A k \in 1..Len(hist) :
        Received(k) =>
            hist[k].entry.name =
                IF Accumulated(k) # {}
                THEN from_utf16(Truncated(LfnBuffer(entries, Accumulated(k)))).chars
                ELSE EightDotThree(entries[hist[k].entry.slot])

\* C7 witness: "ab" from an LFN slot, then the 8.3 name AB of the next entry
C7_Witness ==
    /\ Len(hist) = 2
    /\ Received(2)
    /\ Accumulated(1) # {}
    /\ hist[1].entry.name = << 97, 98 >>
    /\ Accumulated(2) = {}
    /\ hist[2].entry.name = << 65, 66 >>

\* the number of LFN slots the directory starts with, when a short slot follows
LfnRun(es) ==
    LET runs == { m \in 1..(Len(es) - 1) :
                    /\ \A j \in 1..m : LiveLfn(es[j]) /\ es[j].seq % 32 \in 1..31
                    /\ LiveShort(es[m + 1]) }
    IN  IF runs = {} THEN 0 ELSE CHOOSE m \in runs : \A n \in runs : n <= m

Orders(m) ==
    { p \in [1..m -> 1..m] : \A i, j \in 1..m : p[i] = p[j] => i = j }

\* es with its first m slots in the order p
Reordered(es, p, m) == [j \in 1..Len(es) |-> IF j <= m THEN es[p[j]] ELSE es[j]]

SameName(r, q) == r.kind = q.kind /\ r.entry.name = q.entry.name

\* the first next() yields the same name for every order of the LFN run
OrderIndependent ==
    \A p \in Orders(LfnRun(entries)) :
        SameName(next(Reordered(entries, p, LfnRun(entries)), 0), hist[1])

DistinctIndices(es, m) ==
    \A i, j \in 1..m : es[i].seq % 32 = es[j].seq % 32 => i = j

\* C8 as stated: every order of any LFN slots before a short entry yields the
\* same name.
C8_AnyOrderSameName ==
    (Len(hist) >= 1 /\ LfnRun(entries) >= 1) => OrderIndependent

\* C8: every order of LFN slots with pairwise distinct sequence indices before
\* a short entry yields the same name.
C8_DistinctOrderSameName ==
    (/\ Len(hist) >= 1
     /\ LfnRun(entries) >= 1
     /\ DistinctIndices(entries, LfnRun(entries))) => OrderIndependent

\* C8 witness: the slot of index 2 stored before the slot of index 1, the
\* entry named "hello-world.txt"
C8_Witness ==
    /\ Len(hist) = 1
    /\ LfnRun(entries) = 2
    /\ entries[1].seq = 66
    /\ entries[2].seq = 1
    /\ hist[1].kind = "Some"
    /\ hist[1].entry.name =
         << 104, 101, 108, 108, 111, 45, 119, 111, 114, 108, 100, 46, 116, 120, 116 >>

Upcase(cs) == [k \in 1..Len(cs) |-> IF cs[k] >= 97 /\ cs[k] <= 122 THEN cs[k] - 32 ELSE cs[k]]
Downcase(cs) == [k \in 1..Len(cs) |-> IF cs[k] >= 65 /\ cs[k] <= 90 THEN cs[k] + 32 ELSE cs[k]]

RECURSIVE Yielded(_, _)
\* the entries a for loop over the iterator at i receives
Yielded(es, i) ==
    LET r == next(es, i)
    IN  IF r.kind = "Some" THEN << r.entry >> \o Yielded(es, r.iter) ELSE << >>

Matches(ys, name) == { k \in 1..Len(ys) : Downcase(ys[k].name) = Downcase(name) }

FirstMatch(ys, name) == ys[CHOOSE k \in Matches(ys, name) : \A j \in Matches(ys, name) : k <= j]

\* find is called with a UTF-8 name
FindStr == fnd.op = "find" /\ from_utf8(fnd.arg).ok

\* find returns the first entry of the iteration whose name is the argument
\* ignoring ASCII case, NotFound when there is none, and InvalidInput when
\* the argument is not UTF-8
FindFirstMatch ==
    /\ (fnd.op = "find" /\ ~ from_utf8(fnd.arg).ok) =>
          fnd.res = "InvalidInput"
    /\ (FindStr /\ Matches(Yielded(entries, 0), from_utf8(fnd.arg).chars) = {}) =>
          fnd.res = "NotFound"
    /\ (FindStr /\ Matches(Yielded(entries, 0), from_utf8(fnd.arg).chars) # {}) =>
          /\ fnd.res = "Ok"
          /\ fnd.entry = FirstMatch(Yielded(entries, 0), from_utf8(fnd.arg).chars)

\* the entries of the iteration whose name in upper or lower case is the
\* argument of find
CaseVariantOf(ys) ==
    { k \in 1..Len(ys) : from_utf8(fnd.arg).chars \in {Upcase(ys[k].name), Downcase(ys[k].name)} }

\* C10 as stated: find returns the first match, and for every entry e named n
\* find(upcase(n)) and find(downcase(n)) return e.
C10_FindEveryEntry ==
    /\ FindFirstMatch
    /\ FindStr =>
          \A k \in CaseVariantOf(Yielded(entries, 0)) :
              fnd.res = "Ok" /\ fnd.entry = Yielded(entries, 0)[k]

\* C10: find returns the first match, and for every entry e named n
\* find(upcase(n)) and find(downcase(n)) return the first entry of the
\* iteration named n ignoring ASCII case, which is e when none is before it.
C10_FindFirstOfName ==
    /\ FindFirstMatch
    /\ FindStr =>
          \A k \in CaseVariantOf(Yielded(entries, 0)) :
              /\ fnd.res = "Ok"
              /\ fnd.entry = FirstMatch(Yielded(entries, 0), Yielded(entries, 0)[k].name)
              /\ (\A j \in Matches(Yielded(entries, 0), Yielded(entries, 0)[k].name) : k <= j)
                    => fnd.entry = Yielded(entries, 0)[k]

\* C10 witness: find("AB") returns the entry named "ab"
C10_Witness ==
    /\ fnd.op = "find"
    /\ fnd.arg = << 65, 66 >>
    /\ fnd.res = "Ok"
    /\ fnd.entry.name = << 97, 98 >>

\* ---------------------------------------------------- claims on open

\* the names between the slashes of a path
Segments(path) ==
    LET segs == SplitAt(path, 47)
    IN  { k \in 1..Len(segs) : segs[k] # << >> }

NameAt(path, k) == SplitAt(path, 47)[k]

\* the path has a "." or a ".." between its slashes
HasDots(path) ==
    \E k \in Segments(path) : NameAt(path, k) \in { << 46 >>, << 46, 46 >> }

RECURSIVE Resolved(_, _, _, _)
\* the entry the names of path from its k-th segment on lead to from cur:
\* each name is looked up among the entries the directory cur yields, the
\* first whose name is it ignoring ASCII case; a lookup in a file, or of a
\* name no entry has, is NotFound
Resolved(t, cur, path, k) ==
    IF \A j \in Segments(path) : j < k THEN [res |-> "Ok", entry |-> cur]
    ELSE IF k \notin Segments(path) THEN Resolved(t, cur, path, k + 1)
    ELSE IF ~ cur.dir THEN [res |-> "NotFound", entry |-> NoEntry]
    ELSE IF ~ from_utf8(NameAt(path, k)).ok THEN [res |-> "InvalidInput", entry |-> NoEntry]
    ELSE IF t[cur.first_cluster] = BadChain THEN [res |-> "Other", entry |-> NoEntry]
    ELSE IF Matches(Yielded(t[cur.first_cluster], 0), from_utf8(NameAt(path, k)).chars) = {}
    THEN [res |-> "NotFound", entry |-> NoEntry]
    ELSE Resolved(t, FirstMatch(Yielded(t[cur.first_cluster], 0),
                                from_utf8(NameAt(path, k)).chars), path, k + 1)

RootDir == [name |-> << 47 >>, first_cluster |-> vfat.root_dir_cluster, dir |-> TRUE, slot |-> 0]

\* C11: open of a path without "." and ".." returns the entry that resolving
\* its names one after the other from the root directory ("/", the root
\* cluster) leads to, the root itself for "/", and NotFound when a name is
\* missing or is looked up in a file.
C11_OpenResolves ==
    (opn.op = "open" /\ ~ HasDots(opn.path)) =>
        /\ opn.res = Resolved(tree, RootDir, opn.path, 1).res
        /\ opn.entry = Resolved(tree, RootDir, opn.path, 1).entry

\* C11 witness: "/ab/HELLO~1.TXT" opened through the directory AB
C11_Witness ==
    /\ opn.path = << 47, 97, 98, 47 >> \o << 72, 69, 76, 76, 79, 126, 49, 46, 84, 88, 84 >>
    /\ opn.res = "Ok"
    /\ ~ opn.entry.dir
    /\ opn.entry.first_cluster = 3
    /\ opn.entry.name = << 72, 69, 76, 76, 79, 126, 49, 46, 84, 88, 84 >>

\* C12: open of a path with a "." or ".." component returns InvalidInput.
C12_DotsInvalidInput ==
    (opn.op = "open" /\ HasDots(opn.path)) => opn.res = "InvalidInput"

\* ---------------------------------------------------- claims on iterators

\* the entries among what an iterator has returned
EntriesOf(ys) == [j \in 1..Len(ys) |-> ys[j].entry]

IsPrefix(a, b) == Len(a) <= Len(b) /\ \A j \in 1..Len(a) : a[j] = b[j]

\* C13: each iterator over a directory holds the slots of the directory and,
\* however the iterators are interleaved, yields the entries a single iterator
\* run alone from the first slot yields: a prefix of them while it runs, all
\* of them when it signals the end.
C13_IteratorsIndependent ==
    \A k \in 1..Len(its) :
        /\ its[k].entries = tree[2]
        /\ (\A j \in 1..Len(its[k].yielded) : its[k].yielded[j].kind = "Some") =>
              IsPrefix(EntriesOf(its[k].yielded), Yielded(tree[2], 0))
        /\ (\E j \in 1..Len(its[k].yielded) : its[k].yielded[j].kind = "None") =>
              EntriesOf(SubSeq(its[k].yielded, 1, Len(its[k].yielded) - 1))
                  = Yielded(tree[2], 0)

\* C13 witness: two iterators over the directory, both at the end after the
\* same two entries
C13_Witness ==
    /\ Len(its) = 2
    /\ Len(its[1].yielded) = 3
    /\ Len(its[2].yielded) = 3
    /\ its[1].yielded[3].kind = "None"
    /\ its[2].yielded = its[1].yielded

\* ---------------------------------------------------- claims on mount

\* the bytes of the image: byte off of sector n, and the little-endian
\* numbers stored there
ImgByte(n, off) == img.sectors[n + 1][off + 1]
ImgWord(n, off) == ImgByte(n, off) + 256 * ImgByte(n, off + 1)
ImgLong(n, off) == ImgWord(n, off) + 65536 * ImgWord(n, off + 2)

\* mount was called on a device that has a sector 0
Mounted == mnt.res # "none" /\ Len(img.sectors) >= 1

MbrSignatureValid == ImgByte(0, 510) = 85 /\ ImgByte(0, 511) = 170

\* the partition entries (0-based) whose boot indicator is not 0x00 or 0x80
BadIndicators == { i \in 0..3 : ImgByte(0, 446 + 16 * i) \notin {0, 128} }

\* the partition entries whose type is 0x0B or 0x0C
Fat32Entries == { i \in 0..3 : ImgByte(0, 446 + 16 * i + 4) \in {11, 12} }

Lowest(S) == CHOOSE i \in S : \A j \in S : i <= j

\* the sector the lowest FAT32 entry starts at
SelectedStart == ImgLong(0, 446 + 16 * Lowest(Fat32Entries) + 8)

\* C14: when the last two bytes of sector 0 are not 0x55, 0xAA the MBR parse
\* fails with BadSignature, whatever the boot indicators are.
C14_BadSignatureFirst ==
    (Mounted /\ ~ MbrSignatureValid) =>
        mnt.stage = "mbr" /\ mnt.res = "BadSignature"

\* C14 witness: a bad signature and a boot indicator 0x7F, BadSignature reported
C14_Witness ==
    /\ Mounted
    /\ ~ MbrSignatureValid
    /\ BadIndicators # {}
    /\ mnt.stage = "mbr"
    /\ mnt.res = "BadSignature"

\* C15: with a valid signature the MBR parse fails with UnknownBootIndicator(i),
\* i the lowest entry whose boot indicator is not 0x00 or 0x80, and succeeds
\* when there is no such entry.
C15_LowestBadIndicator ==
    (Mounted /\ MbrSignatureValid) =>
        /\ BadIndicators # {} =>
              /\ mnt.stage = "mbr"
              /\ mnt.res = "UnknownBootIndicator"
              /\ mnt.index = Lowest(BadIndicators)
        /\ BadIndicators = {} => mnt.stage # "mbr"

\* C15 witness: entries 2 and 3 with the boot indicator 0x7F, entry 2 reported
C15_Witness ==
    /\ Mounted
    /\ MbrSignatureValid
    /\ BadIndicators = {2, 3}
    /\ mnt.res = "UnknownBootIndicator"
    /\ mnt.index = 2

MbrValid == MbrSignatureValid /\ BadIndicators = {}

\* C16: mount reads the BPB at the relative_sector of the lowest entry of
\* type 0x0B or 0x0C; without such an entry it fails with NotFound having
\* read sector 0 only.
C16_FirstFat32Partition ==
    (Mounted /\ MbrValid) =>
        /\ Fat32Entries # {} => mnt.read = << 0, SelectedStart >>
        /\ Fat32Entries = {} => mnt.res = "NotFound" /\ mnt.read = << 0 >>

\* C16 witness: the types 0x07, 0x0C, 0x0B, 0x00: the BPB is read at the
\* start of entry 1, sector 2
C16_Witness ==
    /\ Mounted
    /\ MbrValid
    /\ [i \in 0..3 |-> ImgByte(0, 446 + 16 * i + 4)] = [i \in 0..3 |-> << 7, 12, 11, 0 >>[i + 1]]
    /\ mnt.read = << 0, 2 >>

\* the boot sector of the selected partition can be read and ends with 0xAA55
BootSectorValid ==
    /\ SelectedStart < Len(img.sectors)
    /\ ImgWord(SelectedStart, 510) = 43605

\* C17: mount returns a facade or an error value and never aborts; a facade
\* exactly when the MBR is valid, a FAT32 partition exists, its boot sector
\* ends with 0xAA55 and bytes_per_sector is at least the device's sector
\* size; with an error no cache is constructed.
C17_FacadeOrError ==
    mnt.res # "none" =>
        /\ mnt.res # "panic"
        /\ mnt.res = "Ok" <=>
              /\ Len(img.sectors) >= 1
              /\ MbrValid
              /\ Fat32Entries # {}
              /\ BootSectorValid
              /\ ImgWord(SelectedStart, 11) >= img.sector_size
        /\ mnt.res # "Ok" => ~ mnt.cache

\* sectors_per_fat of the boot sector at sector n: the 16-bit field unless 0
SectorsPerFat(n) == IF ImgWord(n, 22) # 0 THEN ImgWord(n, 22) ELSE ImgLong(n, 36)

\* C18: a successful mount stores fat_start = relative_sector +
\* num_reserved_sectors, data_start = fat_start + num_fat * sectors_per_fat
\* with the 16-bit sectors_per_fat unless it is 0, and the cache partition
\* {relative_sector, bytes_per_sector}.
C18_Geometry ==
    mnt.res = "Ok" =>
        /\ mnt.vfat.fat_start_sector = SelectedStart + ImgWord(SelectedStart, 14)
        /\ mnt.vfat.data_start_sector =
              mnt.vfat.fat_start_sector + ImgByte(SelectedStart, 16) * SectorsPerFat(SelectedStart)
        /\ mnt.vfat.partition =
              [start |-> SelectedStart, sector_size |-> ImgWord(SelectedStart, 11)]

\* C18 witness: a boot sector at sector 1 with 4 reserved sectors and 2 FATs of
\* 3 sectors by the 16-bit field (5 by the 32-bit one): FAT at 5, data at 11
C18_Witness ==
    /\ mnt.res = "Ok"
    /\ ImgWord(SelectedStart, 22) = 3
    /\ ImgLong(SelectedStart, 36) = 5
    /\ mnt.vfat.fat_start_sector = 5
    /\ mnt.vfat.data_start_sector = 11

\* ---------------------------------------------------- claims on the cache

\* logical / physical
Factor == vfat.partition.sector_size \div PhysSectorSize

\* the physical sectors a virtual sector maps to, first to last
Translated(virt) ==
    IF PhysSectorSize = vfat.partition.sector_size \/ virt < vfat.partition.start
    THEN << virt >>
    ELSE [i \in 1..Factor |->
             vfat.partition.start + (virt - vfat.partition.start) * Factor + (i - 1)]

\* the physical sectors virtual_to_physical gives for a virtual sector
PhysicalRange(virt) ==
    { virtual_to_physical(vfat, virt)[1] + i : i \in 0..(virtual_to_physical(vfat, virt)[2] - 1) }

\* C19: a virtual sector maps to the one physical sector of its number when
\* the sector sizes are equal or it lies before partition.start, else to the
\* factor sectors from partition.start + (v - partition.start) * factor on;
\* a miss reads exactly these, in order; distinct virtual sectors at or after
\* partition.start map to disjoint ranges.
C19_Translation ==
    /\ \A virt \in 0..LogicalEnd(vfat) :
          virtual_to_physical(vfat, virt) = << Translated(virt)[1], Len(Translated(virt)) >>
    /\ \A v1, v2 \in vfat.partition.start..LogicalEnd(vfat) :
          v1 # v2 => PhysicalRange(v1) \cap PhysicalRange(v2) = {}
    /\ (cres.op # "none" /\ ~ cres.hit /\ cres.res = "Ok") =>
          cres.reads = Translated(cres.sector)

\* C19 witness: logical sectors of two physical sectors; the miss of a sector
\* after partition.start read its two physical sectors
C19_Witness ==
    /\ Factor = 2
    /\ cres.op = "get"
    /\ cres.res = "Ok"
    /\ ~ cres.hit
    /\ cres.sector > vfat.partition.start
    /\ cres.reads = << 2 * cres.sector - vfat.partition.start,
                       2 * cres.sector - vfat.partition.start + 1 >>

\* C20: a get, get_mut or read_sector never removes or replaces a cache entry;
\* on a cached sector it reads nothing from the device, leaves the cache as
\* it is and returns the cached bytes; on a sector not cached it inserts the
\* entry exactly when it succeeds.
C20_Memoized ==
    [][cres'.op \in {"get", "get_mut", "read_sector"} =>
          /\ \A sec \in DOMAIN cache : sec \in DOMAIN cache' /\ cache'[sec] = cache[sec]
          /\ cres'.sector \in DOMAIN cache =>
                /\ devlog' = devlog
                /\ cache' = cache
                /\ cres'.res = "Ok"
                /\ cres'.data = SubSeq(cache[cres'.sector].data, 1, Len(cres'.data))
                /\ cres'.op # "read_sector" => cres'.data = cache[cres'.sector].data
          /\ cres'.sector \notin DOMAIN cache =>
                IF cres'.res = "Ok"
                THEN DOMAIN cache' = DOMAIN cache \cup {cres'.sector}
                ELSE cache' = cache]_vars

\* C20 witness: a get answered from the cache after the device was read
C20_Witness ==
    /\ cres.op = "get"
    /\ cres.hit
    /\ cres.res = "Ok"
    /\ cres.sector \in DOMAIN cache
    /\ cres.data = cache[cres.sector].data
    /\ Len(devlog) > 0

\* the length of the buffer a miss creates for a virtual sector: the
\* partition's logical sector at or after partition.start, one physical
\* sector before it
MissBufferLen(virt) ==
    IF virt < vfat.partition.start THEN img.sector_size ELSE vfat.partition.sector_size

\* a get, get_mut or read_sector has just created the entry of its sector
MissCreated ==
    /\ cres.op \in {"get", "get_mut", "read_sector"}
    /\ cres.res = "Ok"
    /\ ~ cres.hit
    /\ cres.sector \in DOMAIN cache

\* C21 as stated: the buffer a cache miss creates has the length of the
\* partition's logical sector, for every virtual sector, those below
\* partition.start included.
C21_LogicalLength ==
    MissCreated => Len(cache[cres.sector].data) = vfat.partition.sector_size

\* C21: the buffer a cache miss creates has the length of the partition's
\* logical sector for a virtual sector at or after partition.start, and the
\* length of one physical sector for a virtual sector below partition.start.
C21_MissLength ==
    MissCreated => Len(cache[cres.sector].data) = MissBufferLen(cres.sector)

\* C21 witness: logical sectors of two physical sectors; one miss created the
\* buffer of a sector below partition.start and another the buffer of a
\* sector after it
C21_Witness ==
    /\ vfat.partition.sector_size = 2 * img.sector_size
    /\ MissCreated
    /\ cres.sector >= vfat.partition.start
    /\ Len(cache[cres.sector].data) = 2 * img.sector_size
    /\ 0 \in DOMAIN cache
    /\ 0 < vfat.partition.start
    /\ Len(cache[0].data) = img.sector_size


\* C22: after a successful get_mut the entry of its sector is marked dirty;
\* an entry created by get is clean, and get marks no entry dirty.
C22_GetMutDirty ==
    /\ (cres.op = "get_mut" /\ cres.res = "Ok") =>
          (cres.sector \in DOMAIN cache /\ cache[cres.sector].dirty)
    /\ (cres.op = "get" /\ cres.res = "Ok" /\ ~ cres.hit) =>
          (cres.sector \in DOMAIN cache /\ ~ cache[cres.sector].dirty)

\* the bytes of a cached sector after buf was copied over its leading bytes
Overwritten(sec, buf) ==
    SubSeq(buf, 1, Min(Len(sec), Len(buf))) \o SubSeq(sec, Min(Len(sec), Len(buf)) + 1, Len(sec))

\* C23: write_sector of the cache refuses, with an error and the cache
\* unchanged, every buffer shorter than the partition's logical sector, and
\* otherwise overwrites the cached sector with the buffer's leading bytes;
\* read_sector copies min(buf.len(), sector length) bytes and returns that
\* count.
C23_WriteRefusesShort ==
    [][/\ cres'.op = "write_sector" =>
             IF Len(cres'.buf) < vfat.partition.sector_size
             THEN cres'.res # "Ok" /\ cache' = cache
             ELSE /\ cres'.res \in {"Ok", "Io"}
                  /\ cres'.res = "Ok" =>
                        /\ cres'.sector \in DOMAIN cache'
                        /\ Len(cache'[cres'.sector].data) <= Len(cres'.buf)
                        /\ cache'[cres'.sector].data =
                               SubSeq(cres'.buf, 1, Len(cache'[cres'.sector].data))
       /\ (cres'.op = "read_sector" /\ cres'.res = "Ok") =>
             /\ cres'.sector \in DOMAIN cache'
             /\ cres'.data = SubSeq(cache'[cres'.sector].data, 1,
                                    Min(Len(cres'.buf), Len(cache'[cres'.sector].data)))]_vars

\* the bytes the device holds for a virtual sector
OnDevice(virt) == ReadAllSectors(vfat, fat, Translated(virt)[1], Len(Translated(virt)))

\* the device can serve every physical sector of a virtual sector
Readable(virt) == \A i \in 1..Len(Translated(virt)) : Translated(virt)[i] < img.count

\* what read_chain(start, buf) returns on a facade whose cache is empty
OnFreshFacade(start, b) == read_chain(vfat, fat, EmptyCache, start, b).rc

\* every entry of the cache is of a sector the device could serve and holds
\* the device's bytes of it; the sector of a failed get has no entry; a
\* read_chain that has returned has returned what it returns on a fresh facade
FacadeSound ==
    /\ \A sec \in DOMAIN cache :
          /\ Readable(sec)
          /\ cache[sec] = [data |-> OnDevice(sec), dirty |-> FALSE]
    /\ cres.res = "Io" => (~ Readable(cres.sector) /\ cres.sector \notin DOMAIN cache)
    /\ rc.pc \in {"ok", "err"} =>
          /\ rc.pc = OnFreshFacade(rc.start, rc.buf0).pc
          /\ rc.buf = OnFreshFacade(rc.start, rc.buf0).buf
          /\ rc.read = OnFreshFacade(rc.start, rc.buf0).read

\* the sectors a get read whole from the device are still cached, and so
\* are the data sectors of the clusters the last read_chain has read
Retained ==
    /\ \A i \in 1..Len(devlog) : \A sec \in 0..(LogicalEnd(vfat) + 1) :
          (Readable(sec) /\ Translated(sec)[1] = devlog[i]) => sec \in DOMAIN cache
    /\ \A i \in 1..Len(rc.path) : \A k \in 0..(vfat.sectors_per_cluster - 1) :
          (vfat.data_start_sector + (rc.path[i] - 2) * vfat.sectors_per_cluster + k)
              \in DOMAIN cache

\* C24: no failed call poisons the facade. A get whose device read fails
\* leaves no entry for its sector; after failing rounds of read_chain and
\* failing gets the entries made before are still in the cache and hold the
\* device's bytes; a read_chain of a valid chain after failed calls puts in
\* buf the bytes it puts there on a fresh facade.
C24_NoPoison == FacadeSound /\ Retained

\* C24 witness: a read_chain of two clusters succeeded on the facade on which
\* the read_chain before it failed and a get failed on the device
C24_Witness ==
    /\ rc.pc = "ok"
    /\ rc.prev = "err"
    /\ Len(rc.path) = 2
    /\ rc.buf = ChainData(vfat, rc.path)
    /\ cres.op = "get"
    /\ cres.res = "Io"
    /\ cache # EmptyCache

\* C25: the driver never writes to the device: whatever get, get_mut,
\* read_sector and write_sector calls the cache has served, the device's
\* write_sector was never invoked and every physical sector holds the bytes
\* it held when the facade was constructed.
C25_DeviceNeverWritten ==
    /\ img.writes = << >>
    /\ \A p \in 0..(img.count - 1) :
          dev_read_all_sector(vfat, fat, img, p) = [ok |-> TRUE, data |-> DeviceSector(vfat, fat, p)]

\* C25 witness: a write_sector on the cache succeeded and the cached sector
\* now differs from the sector on the device
C25_Witness ==
    /\ cres.op = "write_sector"
    /\ cres.res = "Ok"
    /\ cres.sector \in DOMAIN cache
    /\ cache[cres.sector].data = SubSeq(cres.buf, 1, Len(cache[cres.sector].data))
    /\ cache[cres.sector].data # OnDevice(cres.sector)
    /\ Len(devlog) > 0

\* the write-side calls of the FileSystem and of a File
FsWriteOps == {"create_file", "create_dir", "rename", "remove"}

FileWriteOps == {"write", "flush", "sync"}

\* C26: create_file, create_dir, rename and remove signal "read only file
\* system" on every call, whatever the path and the state of the facade, and
\* leave the cache and the geometry as they were; write, flush and sync of a
\* file never succeed and leave the file and the facade as they were.
C26_WriteSideRefused ==
    [][/\ (opn'.op \in FsWriteOps /\ opn' # opn) =>
             /\ opn'.res = ReadOnlyPanic
             /\ UNCHANGED <<vfat, fat, cache, tree, file>>
       /\ (fres'.op \in FileWriteOps /\ fres' # fres) =>
             /\ fres'.res # "Ok"
             /\ UNCHANGED <<vfat, fat, cache, tree, file>>]_vars

\* C26 witness: rename was called on a facade whose cache holds a sector,
\* before any call on the file, and was refused
C26_Witness ==
    /\ opn.op = "rename"
    /\ opn.res = ReadOnlyPanic
    /\ cache # EmptyCache
    /\ fres.op = "none"

\* the number of sectors read_cluster is to read
SectorCount(v, offset, buflen) ==
    IF offset >= v.sectors_per_cluster THEN 0
    ELSE Min(v.sectors_per_cluster - offset, buflen \div v.bytes_per_sector)

\* the first sector read_cluster is to read
FirstSector(v, cluster, offset) ==
    v.data_start_sector + (cluster - 2) * v.sectors_per_cluster + offset

\* the sectors of a data cluster
SectorsOf(v, cluster) ==
    { v.data_start_sector + (cluster - 2) * v.sectors_per_cluster + k :
          k \in 0..(v.sectors_per_cluster - 1) }

RECURSIVE SectorsData(_, _, _, _)
\* the bytes of the n consecutive sectors from sector s on
SectorsData(v, f, s, n) ==
    IF n = 0 THEN << >> ELSE LogicalSector(v, f, s) \o SectorsData(v, f, s + 1, n - 1)

\* C27: read_cluster(c, offset, buf) reads the consecutive sectors from
\* data_start + (c - 2) * sectors_per_cluster + offset on, as many as
\* min(sectors_per_cluster - offset, buf.len() div bytes_per_sector) and none
\* when offset >= sectors_per_cluster; it reads no sector of another
\* cluster, puts the sectors' bytes at the start of buf, and returns the
\* sector count times bytes_per_sector.
C27_ReadCluster ==
    [][rc'.pc = "read_cluster" =>
          LET n == SectorCount(vfat, rc'.offset, Len(rc'.buf0))
              s == FirstSector(vfat, rc'.cluster, rc'.offset)
          IN  /\ rc'.read = n * vfat.bytes_per_sector
              /\ DOMAIN cache' = DOMAIN cache \cup { s + k : k \in 0..(n - 1) }
              /\ (DOMAIN cache' \ DOMAIN cache) \subseteq SectorsOf(vfat, rc'.cluster)
              /\ \A sec \in DOMAIN cache : cache'[sec] = cache[sec]
              /\ rc'.buf = SectorsData(vfat, fat, s, n)
                              \o SubSeq(rc'.buf0, rc'.read + 1, Len(rc'.buf0))]_vars

\* C27 witness: clusters of two sectors; a read at offset 1 into a buffer of
\* more than two sectors read the one sector left in the cluster, and the
\* first sector of the next cluster is not cached
C27_Witness ==
    /\ vfat.sectors_per_cluster = 2
    /\ rc.pc = "read_cluster"
    /\ rc.offset = 1
    /\ Len(rc.buf0) > 2 * vfat.bytes_per_sector
    /\ rc.read = vfat.bytes_per_sector
    /\ FirstSector(vfat, rc.cluster, 1) \in DOMAIN cache
    /\ FirstSector(vfat, rc.cluster + 1, 0) \notin DOMAIN cache

\* C28: read_chain eventually returns, Ok or Err, for every start cluster
\* and every FAT, a FAT whose Data links form a cycle included.
C28_Terminates == (rc.pc = "loop") ~> (rc.pc \in {"ok", "err"})

\* hist[k] is an end signalled at a slot whose byte 0 is 0x00: the call
\* consumed that slot
EndAtZeroSlot(k) ==
    /\ k \in 1..Len(hist)
    /\ hist[k].kind = "None"
    /\ hist[k].iter >= 1
    /\ hist[k].iter > (IF k = 1 THEN 0 ELSE hist[k - 1].iter)
    /\ entries[hist[k].iter].seq = 0

\* C29: the end of the directory is final: once next() has signalled the end
\* at a slot whose byte 0 is 0x00, every later next() on the iterator signals
\* the end, and no entry of a slot after the first 0x00 slot is yielded.
C29_EndIsFinal ==
    /\ \A k \in 1..Len(hist) :
          EndAtZeroSlot(k) => \A j \in (k + 1)..Len(hist) : hist[j].kind = "None"
    /\ \A j \in 1..Len(hist) :
          hist[j].kind = "Some" => hist[j].entry.slot < FirstEnd(entries)

\* C30: after any sequence of read and seek calls, successful or failing,
\* 0 <= position <= size; no call changes size; a seek that fails leaves
\* position at the value it had before the call.
C30_CursorInRange ==
    [][/\ file'.size = file.size
       /\ 0 <= file'.file_ptr
       /\ file'.file_ptr <= file'.size
       /\ (fres'.op \in {"Start", "End", "Current"} /\ fres'.res # "Ok") =>
             file'.file_ptr = file.file_ptr
       /\ (fres'.op = "read" /\ fres'.res # "Ok") => file'.file_ptr = file.file_ptr]_vars

\* C30 witness: a seek forward from a position inside the file failed and
\* left the position where it was
C30_Witness ==
    /\ fres.op = "Current"
    /\ fres.res = "InvalidInput"
    /\ fres.arg > 0
    /\ fres.prev > 0
    /\ file.file_ptr = fres.prev
    /\ file.file_ptr < file.size

====
